---- MODULE Spec2Model ----
(***************************************************************************)
(* Model of the generation server of src/server.js: the handler of         *)
(* POST /api/generate, generateWithAI with its fallback generateDemo, the  *)
(* result cache (resultCache), the progress tracker (activeGenerations)    *)
(* and the Server-Sent-Events endpoint GET /api/generate/progress/:id.     *)
(*                                                                         *)
(* JavaScript runs each handler and each promise continuation to its next  *)
(* await without interleaving, so one action is one such run: the code     *)
(* from one await (or the entry of a handler) to the next.                 *)
(***************************************************************************)
EXTENDS Integers, Sequences, FiniteSets, TLC

\* ------------------------------------------------------------------ bounds
MaxRequests == 2      \* POST /api/generate requests accepted in one run
MaxSubs == 2          \* progress streams opened in one run
MaxEvents == 3        \* tracker entries written to the streams in one run
MaxTicks == 3         \* advances of the wall clock
MaxDirect == 2        \* direct generations against the result cache
MaxStreamed == 1      \* direct generations whose progress is streamed
MaxHandlerPolls == 3   \* status requests of the serverless handler's poll loop that are counted

\* ------------------------------------------------------- JavaScript values
\* Every scalar is a tuple of strings, so that any two values can be compared.
Undefined == <<"<undefined>">>
EmptyString == <<>>
Num(s) == <<"num", s>>
Bool(s) == <<"bool", s>>

\* the values `x || dflt` replaces by dflt
Falsy(v) == v \in {Undefined, EmptyString, Num("0"), Bool("false")}

OrElse(v, dflt) == IF Falsy(v) THEN dflt ELSE v

\* `${v}` inside a template literal
Str(v) == IF v = Undefined THEN <<"undefined">> ELSE v

RECURSIVE Join(_, _)
\* Array.prototype.join on an array of strings (each a tuple of tokens)
Join(components, sep) ==
  IF Len(components) = 0 THEN <<>>
  ELSE IF Len(components) = 1 THEN components[1]
  ELSE components[1] \o sep \o Join(Tail(components), sep)

\* ------------------------------------------------------------ the options
OptionFields == {"pose", "background", "clothing", "lighting", "style", "bodyType",
                 "strength", "qualityMode", "nsfwMode"}

EmptyOptions == [f \in OptionFields |-> Undefined]

\* server.js buildEnhancedPrompt
buildEnhancedPrompt(options) ==
  Join(<< <<"ultra photorealistic, professional photography">>,
          <<"pose: ">> \o Str(options.pose),
          <<"background: ">> \o Str(options.background),
          <<"clothing: ">> \o Str(options.clothing),
          <<"lighting: ">> \o Str(options.lighting),
          <<"style: ">> \o Str(options.style),
          <<"body type: ">> \o Str(options.bodyType),
          <<"artistic photography, creative composition, masterpiece quality">> >>,
       <<", ">>)

\* ------------------------------------------------------------ the cache key
\* SHA-256 taken as collision free: the digest stands for its input.
Sha256(data) == <<"sha256", data>>

\* Object.keys(keyData).sort(), the array handed to JSON.stringify as replacer
ReplacerKeys == <<"options", "qualityMode", "sourceImageHash", "strength", "targetPrompt", "version">>

\* JSON.stringify(obj, replacerArray) on a flat object: the properties named
\* by the array, in the array's order, undefined ones dropped.
StringifyFlat(obj, allow) ==
  LET keep == SelectSeq(allow, LAMBDA k : k \in DOMAIN obj /\ obj[k] # Undefined)
  IN  [n \in 1..Len(keep) |-> <<keep[n], obj[keep[n]]>>]

\* createHash('sha256').update(undefined) throws ERR_INVALID_ARG_TYPE
CacheKeyThrows(request) == request.sourceImage = Undefined

HashUpdateError == <<"The \"data\" argument must be of type string or an instance of Buffer, TypedArray, or DataView. Received undefined">>

\* server.js generateCacheKey, for a request on which it does not throw.
\* The replacer array filters the nested options object as well.
generateCacheKey(request) ==
  Sha256(<< <<"options", StringifyFlat(request.options, ReplacerKeys)>>,
            <<"qualityMode", request.qualityMode>>,
            <<"sourceImageHash", Sha256(request.sourceImage)>>,
            <<"strength", request.strength>>,
            <<"targetPrompt", request.targetPrompt>>,
            <<"version", <<"2.0">> >> >>)

\* --------------------------------------------------------------- constants
CACHE_DURATION == 24 * 60 * 60 * 1000      \* server.js:217, milliseconds
ClockStep == CACHE_DURATION \div 2         \* the model's clock moves in half windows

\* processingSteps[qualityMode] of generateDemo; an unknown mode gives
\* undefined, and `i <= undefined` is false, so the loop body never runs: 0.
processingSteps(qualityMode) ==
  CASE qualityMode = <<"fast">> -> 4
    [] qualityMode = <<"balanced">> -> 8
    [] qualityMode = <<"high">> -> 12
    [] OTHER -> 0

\* stepName of generateDemo's loop for step i of totalSteps
stepName(i, totalSteps) ==
  IF i <= 2 THEN <<"Preparing image...">>
  ELSE IF 10 * i <= 3 * totalSteps THEN <<"Analyzing face...">>
  ELSE IF 10 * i <= 8 * totalSteps THEN <<"Generating portrait...">>
  ELSE <<"Finalizing image...">>

\* ------------------------------------------------------------------- state
VARIABLES
  now,                \* Date.now()
  responses,          \* the HTTP responses sent by POST /api/generate, in order
  jobs,               \* one record per accepted request: the generateWithAI call
  activeGenerations,  \* the progress tracker: Map requestId -> entry
  resultCache,        \* the result cache: Map cacheKey -> {result, timestamp}
  subs,               \* one record per progress stream (GET .../progress/:id)
  hist,               \* per job, what happened to it (observations, not program state)
  probe               \* inputs and outputs of the pure functions under study

vars == <<now, responses, jobs, activeGenerations, resultCache, subs, hist, probe>>

\* ------------------------------------------------------ Map, as a function
MapSet(m, k, v) == [x \in DOMAIN m \cup {k} |-> IF x = k THEN v ELSE m[x]]
MapDelete(m, k) == [x \in DOMAIN m \ {k} |-> m[x]]
EmptyMap == [x \in {} |-> Undefined]

\* ------------------------------------------------ tracker entries, results
NoProgress == <<>>
NoMetadata == [model |-> Undefined, qualityMode |-> Undefined,
               resolution |-> Undefined, timestamp |-> -1]

BlankEntry == [type |-> "", status |-> "", progress |-> NoProgress, message |-> Undefined,
               imageUrl |-> Undefined, metadata |-> NoMetadata, error |-> Undefined,
               fromCache |-> Undefined, step |-> 0, totalSteps |-> 0, requestId |-> 0]

\* the first entry written as a step of the loop
StartingEntryAsStep(requestId) ==
  [BlankEntry EXCEPT !.type = "progress", !.status = "generating", !.progress = <<1, 4>>,
                     !.message = <<"Preparing image...">>, !.requestId = requestId]

\* server.js:499-505
StartingEntry(requestId) ==
  [BlankEntry EXCEPT !.type = "progress", !.status = "starting", !.progress = <<0, 1>>,
                     !.message = <<"Initializing generation...">>, !.requestId = requestId]

\* progress computed as the share of the steps still to do
GeneratingEntryRemaining(requestId, i, totalSteps) ==
  [BlankEntry EXCEPT !.type = "progress", !.status = "generating",
                     !.progress = <<totalSteps - i, totalSteps>>,
                     !.message = stepName(i, totalSteps), !.requestId = requestId,
                     !.step = i, !.totalSteps = totalSteps]

\* server.js:324-332
GeneratingEntry(requestId, i, totalSteps) ==
  [BlankEntry EXCEPT !.type = "progress", !.status = "generating", !.progress = <<i, totalSteps>>,
                     !.message = stepName(i, totalSteps), !.requestId = requestId,
                     !.step = i, !.totalSteps = totalSteps]

\* the result entry without the image reference
ResultEntryNoImage(requestId, result) ==
  [BlankEntry EXCEPT !.type = "result", !.status = result.status,
                     !.metadata = result.metadata, !.requestId = requestId,
                     !.fromCache = OrElse(result.fromCache, Bool("false"))]

\* server.js:516-523, the .then of generateWithAI
ResultEntry(requestId, result) ==
  [BlankEntry EXCEPT !.type = "result", !.status = result.status, !.imageUrl = result.imageUrl,
                     !.metadata = result.metadata, !.requestId = requestId,
                     !.fromCache = OrElse(result.fromCache, Bool("false"))]

\* server.js:526-531, the .catch of generateWithAI
ErrorEntry(requestId, message) ==
  [BlankEntry EXCEPT !.type = "error", !.status = "failed",
                     !.error = OrElse(message, <<"Generation failed">>), !.requestId = requestId]

\* server.js:447
ConnectedEvent(requestId) == [BlankEntry EXCEPT !.type = "connected", !.requestId = requestId]

Terminal(entry) == entry.status = "completed" \/ entry.status = "failed"

\* server.js:251-259, what generateWithAI returns when the provider call resolves
ProviderResult(request, imageUrl, t) ==
  [status |-> "completed", imageUrl |-> imageUrl,
   metadata |-> [model |-> <<"Enhanced AI Model">>, qualityMode |-> request.qualityMode,
                 resolution |-> Undefined, timestamp |-> t],
   fromCache |-> Undefined]

\* server.js:364-378 buildAIWorkflow and 340-352: what generateDemo builds
DemoResult(request, t) ==
  LET qualityMode == OrElse(request.qualityMode, <<"balanced">>)
  IN  [status |-> "completed",
       imageUrl |-> <<"https://images.unsplash.com/photo-1507003211169-0a1dd7228f2d", "w=768", "h=1024">>,
       metadata |-> [model |-> <<"Enhanced AI Model">>, qualityMode |-> qualityMode,
                     resolution |-> <<"768x1024">>, timestamp |-> t],
       fromCache |-> Undefined]

\* the cached result returned without the fromCache mark
CachedResultUnmarked(cached) == cached.result

\* server.js:278-281, { ...cached.result, fromCache: true }
CachedResult(cached) == [cached.result EXCEPT !.fromCache = Bool("true")]

\* the age test with <= in place of <
CacheFreshInclusive(cached, t) == t - cached.timestamp <= CACHE_DURATION

\* server.js:276
CacheFresh(cached, t) == t - cached.timestamp < CACHE_DURATION

\* ------------------------------------------------------- the request bodies
\* req.body of POST /api/generate: image and options may be missing (falsy),
\* image.base64 and every option field may be missing (undefined).
Body(hasImage, base64, hasOptions, options) ==
  [hasImage |-> hasImage, base64 |-> base64, hasOptions |-> hasOptions, options |-> options]

FastOptions ==
  [EmptyOptions EXCEPT !.pose = <<"smiling">>, !.background = <<"studio">>,
                       !.clothing = <<"suit">>, !.lighting = <<"soft">>,
                       !.style = <<"editorial">>, !.bodyType = <<"athletic">>,
                       !.strength = Num("0.5"), !.qualityMode = <<"fast">>]

Bodies ==
  { Body(FALSE, Undefined, TRUE, FastOptions),        \* no image
    Body(TRUE, <<"imgA">>, FALSE, EmptyOptions),      \* no options
    Body(TRUE, Undefined, TRUE, EmptyOptions),        \* image without base64, options without fields
    Body(TRUE, <<"imgA">>, TRUE, FastOptions) }

\* the bodies of the direct generations
DirectBodies ==
  { Body(TRUE, <<"imgA">>, TRUE, FastOptions),
    Body(TRUE, <<"imgB">>, TRUE, FastOptions) }

\* outcomes of the provider call aiModelService.generateImage (Pollinations
\* is the current model of the server's service instance, never changed)
ProviderUrls == { <<"https://image.pollinations.ai/prompt/...">> }
ProviderErrors == { <<"Failed to generate image with Pollinations">> }

\* --------------------------------------------------------------------- Init
Init ==
  /\ now = 0
  /\ responses = <<>>
  /\ jobs = <<>>
  /\ activeGenerations = EmptyMap
  /\ resultCache = EmptyMap
  /\ subs = <<>>
  /\ hist = <<>>
  /\ probe = <<>>

\* ------------------------------------------------------ POST /api/generate
\* the read as it would be after an await of the call, optimization failing
optimizedImageAwaited(base64) == base64

\* server.js:485 and 489.  optimizeImageForGeneration is an async function and
\* the call is not awaited: imageOptimization is the pending Promise, which
\* has no property optimizedImage.
optimizedImageRead(base64) == Undefined

\* server.js:488-496
aiRequest(sourceImage, options, requestId) ==
  [sourceImage |-> sourceImage,
   targetPrompt |-> buildEnhancedPrompt(options),
   options |-> options,
   strength |-> OrElse(options.strength, Num("0.8")),
   qualityMode |-> OrElse(options.qualityMode, <<"balanced">>),
   requestId |-> requestId]

\* obj.name: undefined when the object has no such property
Field(obj, name) == IF name \in DOMAIN obj THEN obj[name] ELSE Undefined

\* server.js:238-249: the argument of aiModelService.generateImage
generationRequest(request) ==
  [prompt |-> Field(request, "targetPrompt"),
   sourceImage |-> Field(request, "sourceImage"),
   width |-> OrElse(Field(request, "width"), Num("768")),
   height |-> OrElse(Field(request, "height"), Num("1024")),
   steps |-> OrElse(Field(request, "steps"), Num("16")),
   cfgScale |-> Num("7.5"),
   sampler |-> <<"DPM++ 2M Karras">>,
   strength |-> Field(request, "strength"),
   model |-> <<"current">>,
   enableNSFW |-> Bool("true")]

\* server.js:474, the validation of the body
BodyRejected(body) == ~body.hasImage \/ ~body.hasOptions

\* server.js:479, Math.random(): the n-th value the generator yields in the
\* life of the process; the values of the generator do not repeat.
random(n) == n

\* an id made of the clock value and one token shared by all requests
newRequestIdFromClock(t, r) == t * (MaxRequests + MaxDirect + 1) + 1

\* server.js:479, `gen_${Date.now()}_${Math.random().toString(36).substring(2)}`:
\* the id is the pair of the clock value and the random token, here a number
\* that determines both
newRequestId(t, r) == t * (MaxRequests + MaxDirect + 1) + r

\* the clock value an id was made from
ClockOf(requestId) == requestId \div (MaxRequests + MaxDirect + 1)

\* the id of job j, and the job an id was issued to

Id(j) == jobs[j].request.requestId
JobOf(requestId) == CHOOSE j \in 1..Len(jobs) : Id(j) = requestId

\* the terminal entries among the entries written for job j
Outcome(j) == { hist[j].writes[k] : k \in { n \in 1..Len(hist[j].writes) : Terminal(hist[j].writes[n]) } }

\* an accepted request with the same body has already completed
AfterIdentical(body) ==
  \E k \in 1..Len(responses) :
     /\ responses[k].status = 200
     /\ responses[k].body = body
     /\ \E e \in Outcome(JobOf(responses[k].requestId)) : e.status = "completed"

\* server.js:478-532 for an accepted body, in statement order: the id, the
\* request, the tracker entry, the response, then the call of generateWithAI,
\* which runs to its first await (the provider call is then in flight).
Accept(body, sourceImage, requestId) ==
  LET request == aiRequest(sourceImage, body.options, requestId)
      calls0 == 0
      tracker1 == MapSet(activeGenerations, requestId, StartingEntry(requestId))
      response == [body |-> body, status |-> 200, error |-> Undefined,
                   requestId |-> requestId,
                   progressUrl |-> requestId,     \* the id in /api/generate/progress/<id>
                   entryAtSend |-> IF requestId \in DOMAIN tracker1 THEN {tracker1[requestId]} ELSE {},
                   callsAtSend |-> calls0]
      calls1 == calls0 + 1                \* generateWithAI calls aiModelService.generateImage
  IN  /\ activeGenerations' = tracker1
      /\ responses' = Append(responses, response)
      /\ jobs' = Append(jobs, [request |-> request, pc |-> "provider", i |-> 0])
      /\ hist' = Append(hist, [providerCalls |-> calls1, call |-> generationRequest(request),
                               providerError |-> Undefined,
                               writes |-> <<StartingEntry(requestId)>>,
                               lookup |-> {}, afterIdentical |-> AfterIdentical(body)])

\* a handler that answers a request identical to one in flight with the id of
\* the job in flight, instead of starting a job of its own
PostGenerateCollapsed(body) ==
  LET same == { k \in 1..Len(responses) :
                   /\ responses[k].status = 200
                   /\ responses[k].body = body
                   /\ jobs[JobOf(responses[k].requestId)].pc # "done" }
      first == CHOOSE k \in same : TRUE
  IN  /\ Len(responses) < MaxRequests
      /\ IF BodyRejected(body)
         THEN /\ responses' = Append(responses,
                     [body |-> body, status |-> 400,
                      error |-> <<"Missing image or options in request body.">>,
                      requestId |-> 0, progressUrl |-> 0, entryAtSend |-> {}, callsAtSend |-> 0])
              /\ UNCHANGED <<jobs, activeGenerations, hist>>
         ELSE IF same # {}
         THEN /\ responses' = Append(responses, responses[first])
              /\ UNCHANGED <<jobs, activeGenerations, hist>>
         ELSE Accept(body, optimizedImageRead(body.base64),
                     newRequestId(now, random(Len(jobs) + 1)))
      /\ UNCHANGED <<now, resultCache, subs, probe>>

\* server.js:471-538
PostGenerate(body) ==
  /\ Len(responses) < MaxRequests
  /\ IF BodyRejected(body)
     THEN /\ responses' = Append(responses,
                 [body |-> body, status |-> 400,
                  error |-> <<"Missing image or options in request body.">>,
                  requestId |-> 0, progressUrl |-> 0, entryAtSend |-> {}, callsAtSend |-> 0])
          /\ UNCHANGED <<jobs, activeGenerations, hist>>
     ELSE Accept(body, optimizedImageRead(body.base64),
                 newRequestId(now, random(Len(jobs) + 1)))
  /\ UNCHANGED <<now, resultCache, subs, probe>>

\* ------------------------------------------- generateWithAI and generateDemo
\* What one run of the job's code, from one await to the next, does: the new
\* tracker and cache, where the job waits next, and the entries it wrote.
Effect(tracker, cache, pc, i, written) ==
  [tracker |-> tracker, cache |-> cache, pc |-> pc, i |-> i, written |-> written]

\* server.js:515-523: generateWithAI resolved, the .then callback
Then(request, tracker, cache, result) ==
  LET entry == ResultEntry(request.requestId, result)
  IN  Effect(MapSet(tracker, request.requestId, entry), cache, "done", 0, <<entry>>)

\* server.js:524-532: generateWithAI rejected, the .catch callback
Catch(request, tracker, cache, message) ==
  LET entry == ErrorEntry(request.requestId, message)
  IN  Effect(MapSet(tracker, request.requestId, entry), cache, "done", 0, <<entry>>)

\* server.js:339-360: generateDemo builds its result, caches it and returns it
DemoFinish(request, tracker, cache, t) ==
  LET result == DemoResult(request, t)
  IN  Then(request, tracker,
           MapSet(cache, generateCacheKey(request), [result |-> result, timestamp |-> t]),
           result)

\* server.js:315-337: step i of the loop, up to its sleep; past the last step
\* the loop ends
DemoStep(request, tracker, cache, i, t) ==
  LET totalSteps == processingSteps(OrElse(request.qualityMode, <<"balanced">>))
  IN  IF i <= totalSteps
      THEN IF request.requestId # 0 /\ request.requestId \in DOMAIN tracker
           THEN LET entry == GeneratingEntry(request.requestId, i, totalSteps)
                IN  Effect(MapSet(tracker, request.requestId, entry), cache, "sleep", i, <<entry>>)
           ELSE Effect(tracker, cache, "sleep", i, <<>>)
      ELSE DemoFinish(request, tracker, cache, t)

\* server.js:270-337: generateDemo up to its first await, called from the
\* catch of generateWithAI (server.js:260-266)
generateDemo(request, tracker, cache, t) ==
  IF CacheKeyThrows(request)
  THEN Catch(request, tracker, cache, HashUpdateError)
  ELSE LET cacheKey == generateCacheKey(request)
       IN  IF cacheKey \in DOMAIN cache
           THEN IF CacheFresh(cache[cacheKey], t)
                THEN Then(request, tracker, cache, CachedResult(cache[cacheKey]))
                ELSE DemoStep(request, tracker, MapDelete(cache, cacheKey), 1, t)
           ELSE DemoStep(request, tracker, cache, 1, t)

\* the cache lookup of generateDemo as seen from outside: when it was made,
\* the entry stored under the key at that time, and whether the call then
\* returned at once with a result marked fromCache
LookupSeen(request, cache, t, effect) ==
  IF CacheKeyThrows(request) THEN {}
  ELSE { [at |-> t,
          key |-> generateCacheKey(request),
          found |-> IF generateCacheKey(request) \in DOMAIN cache
                    THEN {cache[generateCacheKey(request)]} ELSE {},
          hit |-> effect.pc = "done" /\ effect.written[1].fromCache = Bool("true"),
          kept |-> generateCacheKey(request) \in DOMAIN effect.cache] }

Apply(j, effect) ==
  /\ activeGenerations' = effect.tracker
  /\ resultCache' = effect.cache
  /\ jobs' = [jobs EXCEPT ![j].pc = effect.pc, ![j].i = effect.i]

\* server.js:238-259: the provider call resolves and generateWithAI returns
ProviderResolve(j, imageUrl) ==
  /\ jobs[j].pc = "provider"
  /\ LET effect == Then(jobs[j].request, activeGenerations, resultCache,
                        ProviderResult(jobs[j].request, imageUrl, now))
     IN  /\ Apply(j, effect)
         /\ hist' = [hist EXCEPT ![j].writes = @ \o effect.written]
  /\ UNCHANGED <<now, responses, subs, probe>>

\* server.js:260-266: the provider call rejects and generateWithAI falls back
\* to generateDemo
ProviderReject(j, err) ==
  /\ jobs[j].pc = "provider"
  /\ LET effect == generateDemo(jobs[j].request, activeGenerations, resultCache, now)
     IN  /\ Apply(j, effect)
         /\ hist' = [hist EXCEPT ![j].providerError = err,
                                 ![j].writes = @ \o effect.written,
                                 ![j].lookup = LookupSeen(jobs[j].request, resultCache, now, effect)]
  /\ UNCHANGED <<now, responses, subs, probe>>

\* server.js:336: a sleep of the loop ends; the next step, or the end
DemoWake(j) ==
  /\ jobs[j].pc = "sleep"
  /\ LET effect == DemoStep(jobs[j].request, activeGenerations, resultCache, jobs[j].i + 1, now)
     IN  /\ Apply(j, effect)
         /\ hist' = [hist EXCEPT ![j].writes = @ \o effect.written]
  /\ UNCHANGED <<now, responses, subs, probe>>

\* ------------------------------------------- GET /api/generate/progress/:id
\* a handler that opens the stream on an empty tracker slot
SubscribeFresh(requestId) ==
  /\ Len(subs) < MaxSubs
  /\ \E k \in 1..Len(responses) : responses[k].status = 200 /\ responses[k].requestId = requestId
  /\ subs' = Append(subs, [requestId |-> requestId, interval |-> TRUE, ended |-> FALSE,
                          closed |-> FALSE,
                          late |-> jobs[JobOf(requestId)].pc = "done",
                          events |-> <<ConnectedEvent(requestId)>>])
  /\ activeGenerations' = MapDelete(activeGenerations, requestId)
  /\ UNCHANGED <<now, responses, jobs, resultCache, hist, probe>>

\* server.js:436-447: the stream opens with the 'connected' event and a
\* one-second interval is set.  `late` notes whether the job had already
\* written its terminal entry when the stream was opened.
Subscribe(requestId) ==
  /\ Len(subs) < MaxSubs
  /\ \E k \in 1..Len(responses) : responses[k].status = 200 /\ responses[k].requestId = requestId
  /\ subs' = Append(subs, [requestId |-> requestId, interval |-> TRUE, ended |-> FALSE,
                          closed |-> FALSE,
                          late |-> jobs[JobOf(requestId)].pc = "done",
                          events |-> <<ConnectedEvent(requestId)>>])
  /\ UNCHANGED <<now, responses, jobs, activeGenerations, resultCache, hist, probe>>

RECURSIVE EventsWritten(_)
\* the number of tracker entries written to the first n streams
EventsWritten(n) == IF n = 0 THEN 0 ELSE Len(subs[n].events) - 1 + EventsWritten(n - 1)

\* the interval callback without its terminal branch
ProgressTickNoStop(s) ==
  /\ subs[s].interval
  /\ subs[s].requestId \in DOMAIN activeGenerations
  /\ EventsWritten(Len(subs)) < MaxEvents
  /\ subs' = [subs EXCEPT ![s].events = Append(@, activeGenerations[subs[s].requestId])]
  /\ UNCHANGED <<now, responses, jobs, activeGenerations, resultCache, hist, probe>>

\* server.js:450-461: one firing of the interval that finds an entry
ProgressTick(s) ==
  /\ subs[s].interval
  /\ subs[s].requestId \in DOMAIN activeGenerations
  /\ \/ Terminal(activeGenerations[subs[s].requestId])
     \/ EventsWritten(Len(subs)) < MaxEvents
  /\ LET requestId == subs[s].requestId
         progress == activeGenerations[requestId]
     IN  IF Terminal(progress)
         THEN /\ subs' = [subs EXCEPT ![s].events = Append(@, progress),
                                      ![s].interval = FALSE, ![s].ended = TRUE]
              /\ activeGenerations' = MapDelete(activeGenerations, requestId)
         ELSE /\ subs' = [subs EXCEPT ![s].events = Append(@, progress)]
              /\ UNCHANGED activeGenerations
  /\ UNCHANGED <<now, responses, jobs, resultCache, hist, probe>>

\* a 'close' handler that also abandons the generation of the stream's job
ClientCloseCancels(s) ==
  /\ ~subs[s].closed
  /\ subs' = [subs EXCEPT ![s].closed = TRUE, ![s].interval = FALSE]
  /\ activeGenerations' = MapDelete(activeGenerations, subs[s].requestId)
  /\ jobs' = [jobs EXCEPT ![JobOf(subs[s].requestId)].pc = "cancelled"]
  /\ UNCHANGED <<now, responses, resultCache, hist, probe>>

\* server.js:464-467: the request's 'close' event
ClientClose(s) ==
  /\ ~subs[s].closed
  /\ subs' = [subs EXCEPT ![s].closed = TRUE, ![s].interval = FALSE]
  /\ activeGenerations' = MapDelete(activeGenerations, subs[s].requestId)
  /\ UNCHANGED <<now, responses, jobs, resultCache, hist, probe>>

\* -------------------------------------------------------------------- clock
AdvanceClock ==
  /\ now < MaxTicks * ClockStep
  /\ now' = now + ClockStep
  /\ UNCHANGED <<responses, jobs, activeGenerations, resultCache, subs, hist, probe>>

\* ----------------------------------------------------------- specifications
\* The server.  Its requests carry sourceImage = undefined (optimizedImageRead),
\* so generateDemo always leaves through the throw of generateCacheKey: its
\* loop is never entered and the clock is never read by a cache lookup.
Next ==
  \/ \E body \in Bodies : PostGenerate(body)
  \/ \E j \in 1..Len(jobs) : \E imageUrl \in ProviderUrls : ProviderResolve(j, imageUrl)
  \/ \E j \in 1..Len(jobs) : \E err \in ProviderErrors : ProviderReject(j, err)
  \/ \E k \in 1..Len(responses) : Subscribe(responses[k].requestId)
  \/ \E s \in 1..Len(subs) : ProgressTick(s)
  \/ \E s \in 1..Len(subs) : ClientClose(s)

Spec == Init /\ [][Next]_vars

\* The provider call of job j settles: aiModelService.generateImage awaits one
\* fetch, whose promise resolves or rejects.
ProviderSettles(j) ==
  /\ j \in 1..Len(jobs)
  /\ \/ \E imageUrl \in ProviderUrls : ProviderResolve(j, imageUrl)
     \/ \E err \in ProviderErrors : ProviderReject(j, err)

\* The server under fair scheduling: every provider call settles, and the
\* interval of a stream keeps firing until it is cleared (server.js:450-461).
\* Requests, subscriptions and disconnects are the clients' and stay free.
Fairness ==
  /\ \A j \in 1..MaxRequests : WF_vars(ProviderSettles(j))
  /\ \A s \in 1..MaxSubs : WF_vars(s \in 1..Len(subs) /\ ProgressTick(s))

SpecLive == Init /\ [][Next]_vars /\ Fairness

\* generateWithAI applied directly to requests that carry the image payload as
\* sourceImage, the request shape generateDemo and generateCacheKey are written
\* for: the steps of server.js:478-532 with sourceImage = image.base64 and the
\* number of the generation as requestId.
GenerateDirect(body) ==
  /\ Len(jobs) < MaxDirect
  /\ ~BodyRejected(body)
  /\ body.base64 # Undefined
  /\ Accept(body, body.base64, Len(jobs) + 1)
  /\ UNCHANGED <<now, resultCache, subs, probe>>

\* The result cache of generateDemo under direct generations and a moving clock.
NextCache ==
  \/ \E body \in DirectBodies : GenerateDirect(body)
  \/ \E j \in 1..Len(jobs) : \E imageUrl \in ProviderUrls : ProviderResolve(j, imageUrl)
  \/ \E j \in 1..Len(jobs) : \E err \in ProviderErrors : ProviderReject(j, err)
  \/ \E j \in 1..Len(jobs) : DemoWake(j)
  \/ AdvanceClock

SpecCache == Init /\ [][NextCache]_vars

GenerateStreamed(body) ==
  /\ Len(jobs) < MaxStreamed
  /\ GenerateDirect(body)

\* The progress loop of generateDemo observed through the progress streams.
NextProgress ==
  \/ \E body \in DirectBodies : GenerateStreamed(body)
  \/ \E j \in 1..Len(jobs) : \E imageUrl \in ProviderUrls : ProviderResolve(j, imageUrl)
  \/ \E j \in 1..Len(jobs) : \E err \in ProviderErrors : ProviderReject(j, err)
  \/ \E j \in 1..Len(jobs) : DemoWake(j)
  \/ \E k \in 1..Len(responses) : Subscribe(responses[k].requestId)
  \/ \E s \in 1..Len(subs) : ProgressTick(s)
  \/ \E s \in 1..Len(subs) : ClientClose(s)

SpecProgress == Init /\ [][NextProgress]_vars

\* ------------------------------------------- the cache key as a function
\* the values an option field takes in the key study
KeyFieldValues(f) ==
  CASE f = "strength" -> {Undefined, Num("0"), Num("0.5"), Num("0.8")}
    [] f = "qualityMode" -> {Undefined, <<"fast">>, <<"balanced">>, <<"high">>}
    [] f = "nsfwMode" -> {Undefined, Bool("true"), Bool("false")}
    [] OTHER -> {Undefined, <<"smiling">>, <<"standing">>}

\* pairs of option objects that differ in exactly the field f
KeyProbes ==
  UNION { UNION { { [phase |-> "input", field |-> f,
                     a |-> [base EXCEPT ![f] = vw[1]], b |-> [base EXCEPT ![f] = vw[2]],
                     keyA |-> <<>>, keyB |-> <<>>]
                    : vw \in { p \in KeyFieldValues(f) \X KeyFieldValues(f) : p[1] # p[2] } }
                  : f \in OptionFields }
          : base \in {EmptyOptions, FastOptions} }

InitKey ==
  /\ now = 0
  /\ responses = <<>>
  /\ jobs = <<>>
  /\ activeGenerations = EmptyMap
  /\ resultCache = EmptyMap
  /\ subs = <<>>
  /\ hist = <<>>
  /\ probe \in KeyProbes

\* generateCacheKey applied to the two requests built from the same image
\* payload and the two option objects (server.js:488-496, 220-232)
ComputeKeys ==
  /\ probe.phase = "input"
  /\ probe' = [probe EXCEPT !.phase = "keyed",
                            !.keyA = generateCacheKey(aiRequest(<<"imgA">>, probe.a, 1)),
                            !.keyB = generateCacheKey(aiRequest(<<"imgA">>, probe.b, 1))]
  /\ UNCHANGED <<now, responses, jobs, activeGenerations, resultCache, subs, hist>>

SpecKey == InitKey /\ [][ComputeKeys]_vars

\* --------------------------------------------- the prediction poll loops
\* src/services/aiModelService.ts:317-341, AIModelService.pollReplicateResult,
\* and src/api/generate.js:55-66, the poll loop of the serverless handler.
\* The state of one loop is held in probe:
\*   adapter    "service" (pollReplicateResult) or "handler" (generate.js)
\*   pc         "fetch": a status request is in flight; "sleep": the loop
\*              sleeps; "done": the function has returned, thrown or responded
\*   attempts   the loop counter of pollReplicateResult
\*   requests   status requests made so far
\*   waited     milliseconds slept so far
\*   status     prediction.status as last reported ("" before the first report)
\*   afterTerminal  status requests made after a terminal status was reported
\*   outcome    "" while running, else how the function ended
\*   error      the error's message, output  the value returned or sent
maxAttempts == 60
pollWaitMs == 2000
handlerWaitMs == 2000

\* the statuses of a Replicate prediction; the last three are terminal
PredictionStatuses == {"starting", "processing", "succeeded", "failed", "canceled"}
TerminalStatuses == {"succeeded", "failed", "canceled"}

\* a status request that fails in transport (fetch rejects)
FetchRejected == "<rejected>"

\* what a status request can yield: the provider never leaves a terminal
\* status once it has reported it
MayReport(status) ==
  /\ status \in PredictionStatuses \cup {FetchRejected}
  /\ probe.status \in TerminalStatuses => status = probe.status

PredictionOutput == <<"https://replicate.delivery/out-0.png">>

PollStart(adapter, pc, status) ==
  [adapter |-> adapter, pc |-> pc, attempts |-> 0, requests |-> 0, waited |-> 0,
   status |-> status, afterTerminal |-> 0, outcome |-> "", error |-> Undefined,
   output |-> Undefined]

\* the effect of one more status request on the counters; the handler's loop
\* has no counter of its own, and the model stops counting its requests and
\* its waits at MaxHandlerPolls
Requested(status) ==
  [probe EXCEPT !.requests = IF probe.adapter = "handler" /\ @ >= MaxHandlerPolls THEN @ ELSE @ + 1,
                !.afterTerminal = IF probe.status \in TerminalStatuses THEN @ + 1 ELSE @,
                !.status = IF status = FetchRejected THEN probe.status ELSE status]

Ended(p, outcome, error, output) ==
  [p EXCEPT !.pc = "done", !.outcome = outcome, !.error = error, !.output = output]

\* pollReplicateResult is entered with attempts = 0 < maxAttempts and issues
\* its first status request; the handler has the prediction of its create
\* request (generate.js:50) and tests the loop condition (generate.js:56)
InitPoll ==
  /\ now = 0
  /\ responses = <<>>
  /\ jobs = <<>>
  /\ activeGenerations = EmptyMap
  /\ resultCache = EmptyMap
  /\ subs = <<>>
  /\ hist = <<>>
  /\ probe \in {PollStart("service", "fetch", "")}
         \cup {PollStart("handler", "sleep", status) : status \in PredictionStatuses \ TerminalStatuses}

\* aiModelService.ts:322-334: the status request of pollReplicateResult
\* settles; succeeded returns the output, failed throws, anything else goes
\* on to the sleep
pollFetch(status) ==
  /\ probe.adapter = "service"
  /\ probe.pc = "fetch"
  /\ MayReport(status)
  /\ probe' = LET p == Requested(status)
              IN  CASE status = FetchRejected -> Ended(p, "thrown", <<"fetch failed">>, Undefined)
                    [] status = "succeeded" -> Ended(p, "returned", Undefined, PredictionOutput)
                    [] status = "failed" -> Ended(p, "thrown", <<"Replicate generation failed">>, Undefined)
                    [] OTHER -> [p EXCEPT !.pc = "sleep"]
  /\ UNCHANGED <<now, responses, jobs, activeGenerations, resultCache, subs, hist>>

\* the sleep ends without counting the attempt
pollWakeNoCount ==
  /\ probe.adapter = "service"
  /\ probe.pc = "sleep"
  /\ probe' = [probe EXCEPT !.waited = @ + pollWaitMs, !.pc = "fetch"]
  /\ UNCHANGED <<now, responses, jobs, activeGenerations, resultCache, subs, hist>>

\* aiModelService.ts:336-340 and 321: the sleep ends, attempts++, and the loop
\* condition either lets the next status request go or ends the loop with the
\* timeout error
pollWake ==
  /\ probe.adapter = "service"
  /\ probe.pc = "sleep"
  /\ probe' = LET p == [probe EXCEPT !.waited = @ + pollWaitMs, !.attempts = @ + 1]
              IN  IF p.attempts < maxAttempts
                  THEN [p EXCEPT !.pc = "fetch"]
                  ELSE Ended(p, "thrown", <<"Replicate generation timeout">>, Undefined)
  /\ UNCHANGED <<now, responses, jobs, activeGenerations, resultCache, subs, hist>>

\* generate.js:57-58: the handler's sleep ends and it issues a status request
handlerWake ==
  /\ probe.adapter = "handler"
  /\ probe.pc = "sleep"
  /\ probe' = [probe EXCEPT !.waited = IF probe.requests < MaxHandlerPolls
                                       THEN @ + handlerWaitMs ELSE @,
                            !.pc = "fetch"]
  /\ UNCHANGED <<now, responses, jobs, activeGenerations, resultCache, subs, hist>>

\* generate.js:58-73 and 75-78: the status request settles, the loop condition
\* is tested again, and past the loop the response is sent
handlerFetch(status) ==
  /\ probe.adapter = "handler"
  /\ probe.pc = "fetch"
  /\ MayReport(status)
  /\ probe' = LET p == Requested(status)
              IN  CASE status = FetchRejected ->
                         Ended(p, "500", <<"An unexpected server error occurred.">>, Undefined)
                    [] status = "succeeded" -> Ended(p, "200", Undefined, PredictionOutput)
                    [] status \in {"failed", "canceled"} ->
                         Ended(p, "500", <<"Prediction failed or was canceled.">>, Undefined)
                    [] OTHER -> [p EXCEPT !.pc = "sleep"]
  /\ UNCHANGED <<now, responses, jobs, activeGenerations, resultCache, subs, hist>>

NextPoll ==
  \/ \E status \in PredictionStatuses \cup {FetchRejected} : pollFetch(status)
  \/ pollWake
  \/ handlerWake
  \/ \E status \in PredictionStatuses \cup {FetchRejected} : handlerFetch(status)

SpecPoll == InitPoll /\ [][NextPoll]_vars

\* every sleep ends and every status request settles
SpecPollLive ==
  /\ InitPoll /\ [][NextPoll]_vars
  /\ WF_vars(pollWake) /\ WF_vars(handlerWake)
  /\ WF_vars(\E status \in PredictionStatuses \cup {FetchRejected} : pollFetch(status))
  /\ WF_vars(\E status \in PredictionStatuses \cup {FetchRejected} : handlerFetch(status))

\* =============================================================== properties
StyleFields == {"pose", "background", "clothing", "lighting", "style", "bodyType"}

\* the body carries no image payload, or none of the style-describing fields
LacksRequired(body) ==
  \/ ~body.hasImage
  \/ body.base64 = Undefined
  \/ ~body.hasOptions
  \/ \A f \in StyleFields : body.options[f] = Undefined

\* C1: a request that lacks the source image payload or the style-describing
\* option fields is answered 400 with an error message, and no request id is
\* issued, no tracker entry is created and no provider call is made for it.
C1_RejectsIncomplete ==
  \A k \in 1..Len(responses) :
     LacksRequired(responses[k].body) =>
        /\ responses[k].status = 400
        /\ responses[k].error # Undefined
        /\ responses[k].requestId = 0
        /\ responses[k].entryAtSend = {}
        /\ responses[k].callsAtSend = 0

\* C2: for every accepted POST the tracker holds, when the 200 response is
\* sent, an entry with status 'starting' and progress 0 under the issued id;
\* the response carries that id and a progressUrl naming it; and the response
\* is sent before the provider call is made, so it never waits for it.
C2_AcknowledgedFirst ==
  /\ \A k \in 1..Len(responses) :
        responses[k].status = 200 =>
           /\ \E j \in 1..Len(jobs) : Id(j) = responses[k].requestId
           /\ Cardinality(responses[k].entryAtSend) = 1
           /\ \A e \in responses[k].entryAtSend :
                 /\ e.status = "starting"
                 /\ e.progress = <<0, 1>>
                 /\ e.requestId = responses[k].requestId
           /\ responses[k].progressUrl = responses[k].requestId
           /\ responses[k].callsAtSend = 0
  /\ \A j \in 1..Len(jobs) :
        \E k \in 1..Len(responses) : responses[k].status = 200 /\ responses[k].requestId = Id(j)

\* a 200 response has been sent and the provider call of its job is in flight
C2_Witness ==
  \E k \in 1..Len(responses) :
     /\ responses[k].status = 200
     /\ jobs[JobOf(responses[k].requestId)].pc = "provider"
     /\ hist[JobOf(responses[k].requestId)].providerCalls = 1

C4_SecondFromCache ==
  \A j \in 1..Len(jobs) :
     hist[j].afterIdentical =>
        /\ hist[j].providerCalls = 0
        /\ jobs[j].pc = "done" =>
              \A e \in Outcome(j) : e.status = "completed" /\ e.fromCache = Bool("true")

\* the cache holds the result that ended job j
Stored(j) ==
  \E key \in DOMAIN resultCache :
     \E e \in Outcome(j) : resultCache[key].result.imageUrl = e.imageUrl

\* C5: once a job whose provider call succeeded is marked completed, the
\* cache holds its result; for a failed job the cache holds nothing.
C5_WriteThrough ==
  \A j \in 1..Len(jobs) :
     jobs[j].pc = "done" =>
        /\ (hist[j].providerError = Undefined /\ \E e \in Outcome(j) : e.status = "completed")
              => Stored(j)
        /\ (\E e \in Outcome(j) : e.status = "failed") => ~Stored(j)

\* C6: a lookup made at the time the entry was stored returns the stored
\* result with fromCache = true; a lookup made once the expiry window has
\* elapsed returns absent.
C6_RoundTrip ==
  \A j \in 1..Len(jobs) : \A l \in hist[j].lookup : \A c \in l.found :
     /\ l.at = c.timestamp =>
           /\ l.hit
           /\ \E e \in Outcome(j) :
                 /\ e.status = c.result.status
                 /\ e.imageUrl = c.result.imageUrl
                 /\ e.metadata = c.result.metadata
                 /\ e.fromCache = Bool("true")
     /\ l.at - c.timestamp >= CACHE_DURATION => ~l.hit

C6_Witness ==
  \E j \in 1..Len(jobs) : \E l \in hist[j].lookup : \E c \in l.found :
     /\ l.at = c.timestamp
     /\ l.hit
     /\ \E e \in Outcome(j) : e.fromCache = Bool("true") /\ e.imageUrl = c.result.imageUrl

C8_KeySensitive == probe.phase = "keyed" => probe.keyA # probe.keyB

\* the progress values carried by a sequence of entries lie in [0,1] and
\* never decrease along the sequence
ProgressMonotone(entries) ==
  LET carried == SelectSeq(entries, LAMBDA e : e.progress # NoProgress)
  IN  /\ \A n \in 1..Len(carried) :
            /\ carried[n].progress[2] > 0
            /\ 0 <= carried[n].progress[1]
            /\ carried[n].progress[1] <= carried[n].progress[2]
      /\ \A m, n \in 1..Len(carried) :
            m < n => carried[m].progress[1] * carried[n].progress[2]
                       <= carried[n].progress[1] * carried[m].progress[2]

\* C9: for every job the progress values written to its tracker entry, and
\* the progress values written to any stream, lie in [0,1] and never decrease.
C9_ProgressMonotone ==
  /\ \A j \in 1..Len(jobs) : ProgressMonotone(hist[j].writes)
  /\ \A s \in 1..Len(subs) : ProgressMonotone(subs[s].events)

\* a stream has carried two different progress values of a job's loop
C9_Witness ==
  \E s \in 1..Len(subs) : \E m, n \in 1..Len(subs[s].events) :
     /\ m < n
     /\ subs[s].events[m].status = "generating"
     /\ subs[s].events[n].status = "generating"
     /\ subs[s].events[m].progress # subs[s].events[n].progress

\* C10: on every stream a terminal event is the last event written.
C10_TerminalLast ==
  \A s \in 1..Len(subs) : \A n \in 1..Len(subs[s].events) :
     Terminal(subs[s].events[n]) => n = Len(subs[s].events)

\* a stream was sent a terminal event while another stream on the same job
\* is still open
C10_Witness ==
  \E s, t \in 1..Len(subs) :
     /\ s # t
     /\ subs[s].requestId = subs[t].requestId
     /\ Terminal(subs[s].events[Len(subs[s].events)])
     /\ subs[s].ended
     /\ subs[t].interval

\* the status changes the state machine of a job allows
AllowedTransition(a, b) ==
  \/ a = "starting" /\ b = "generating"
  \/ a = "generating" /\ b \in {"generating", "completed", "failed"}

\* C11: along the entries written for a job, the status changes only by
\* starting -> generating, generating -> generating, generating -> completed
\* and generating -> failed, and no write after a completed or failed entry
\* changes the status.
C11_StatusTransitions ==
  \A j \in 1..Len(jobs) :
     /\ \A n \in 1..(Len(hist[j].writes) - 1) :
           \/ hist[j].writes[n].status = hist[j].writes[n + 1].status
           \/ AllowedTransition(hist[j].writes[n].status, hist[j].writes[n + 1].status)
     /\ \A m, n \in 1..Len(hist[j].writes) :
           (m < n /\ Terminal(hist[j].writes[m]))
              => hist[j].writes[n].status = hist[j].writes[m].status

\* C12: pollReplicateResult makes at most maxAttempts status requests, with
\* one wait of 2 seconds after each; when no terminal status and no transport
\* error has ended it, it ends after the 60th request and wait by throwing
\* the timeout error.
C12_PollBounded ==
  probe.adapter = "service" =>
     /\ probe.requests <= maxAttempts
     /\ probe.attempts <= maxAttempts
     /\ probe.waited = 2000 * probe.attempts
     /\ probe.requests \in {probe.attempts, probe.attempts + 1}
     /\ (probe.attempts = maxAttempts) =>
           /\ probe.pc = "done"
           /\ probe.outcome = "thrown"
           /\ probe.error = <<"Replicate generation timeout">>
           /\ probe.requests = 60
     /\ (probe.outcome = "thrown" /\ probe.error = <<"Replicate generation timeout">>) =>
           probe.attempts = maxAttempts

\* the loop has made its 60 status requests and thrown the timeout error
C12_Witness ==
  /\ probe.adapter = "service"
  /\ probe.status \notin TerminalStatuses
  /\ probe.requests = 60
  /\ probe.waited = 120000
  /\ probe.outcome = "thrown"
  /\ probe.error = <<"Replicate generation timeout">>

\* C13: once the provider has reported a terminal status (succeeded, failed
\* or canceled) the adapter has stopped: it has returned the output on
\* succeeded and failed on failed and on canceled, and it makes no status
\* request after a terminal status was reported.
C13_StopsOnTerminal ==
  /\ probe.afterTerminal = 0
  /\ probe.status \in TerminalStatuses =>
        /\ probe.pc = "done"
        /\ probe.status = "succeeded" =>
              probe.outcome \in {"returned", "200"} /\ probe.output = PredictionOutput
        /\ probe.status \in {"failed", "canceled"} =>
              probe.outcome \in {"thrown", "500"} /\ probe.requests < maxAttempts

\* the job a stream is about has written its terminal entry
JobEnded(s) == jobs[JobOf(subs[s].requestId)].pc = "done"

\* the last event written to stream s
LastEvent(s) == subs[s].events[Len(subs[s].events)]

\* C14: every stream that is still connected once its job has reached
\* completed or failed has been sent the terminal event and closed by the
\* server, or the terminal entry is still in the tracker for it to be sent.
C14_EverySubscriberServed ==
  \A s \in 1..Len(subs) :
     (~subs[s].closed /\ JobEnded(s)) =>
        \/ subs[s].ended /\ Terminal(LastEvent(s))
        \/ subs[s].requestId \in DOMAIN activeGenerations

\* C15: once a stream of a job has been sent the terminal event, or has been
\* disconnected, the tracker holds no entry for that job id.
C15_EntryRemoved ==
  \A s \in 1..Len(subs) :
     (subs[s].ended \/ subs[s].closed) => subs[s].requestId \notin DOMAIN activeGenerations

\* stream s is the only stream opened for its job
SoleStream(s) == \A t \in 1..Len(subs) : t # s => subs[t].requestId # subs[s].requestId

\* C16: a disconnected stream is written no further event, the step that
\* disconnects a stream leaves every generation as it was (the provider call
\* stays in flight), and the job of a disconnected stream goes on to write
\* its terminal entry.
C16_DisconnectKeepsJob ==
  /\ [][\A s \in 1..Len(subs) :
          /\ subs[s].closed => subs'[s].events = subs[s].events
          /\ (~subs[s].closed /\ subs'[s].closed) => jobs' = jobs]_vars
  /\ \A s \in 1..MaxSubs :
        (s \in 1..Len(subs) /\ subs[s].closed)
           ~> (s \in 1..Len(subs) /\ JobEnded(s) /\ Outcome(JobOf(subs[s].requestId)) # {})

\* a stream was disconnected while its job was in flight (the terminal entry
\* was written after the disconnect, so it is in the tracker again), and the
\* stream has not been written the terminal entry
C16_Witness ==
  \E s \in 1..Len(subs) :
     /\ subs[s].closed
     /\ SoleStream(s)
     /\ JobEnded(s)
     /\ subs[s].requestId \in DOMAIN activeGenerations
     /\ activeGenerations[subs[s].requestId] \in Outcome(JobOf(subs[s].requestId))
     /\ \A n \in 1..Len(subs[s].events) : ~Terminal(subs[s].events[n])

NoTickHeld == EventsWritten(Len(subs)) < MaxEvents

\* stream s has been connected since before the first 'generating' update of
\* its job (it was sent the 'starting' entry) up to the terminal event
WholeLife(s) ==
  /\ ~subs[s].closed
  /\ subs[s].ended
  /\ Len(subs[s].events) >= 2
  /\ subs[s].events[2].status = "starting"

C19_AtMostOncePerState ==
  \A s \in 1..Len(subs) : \A m, n \in 2..Len(subs[s].events) :
     m < n =>
        \/ subs[s].events[m].status # subs[s].events[n].status
        \/ subs[s].events[m].progress # subs[s].events[n].progress
        \/ subs[s].events[m].message # subs[s].events[n].message

\* the request of stream s's job was well-formed with qualityMode 'fast' and
\* its provider call has succeeded
FastSucceeded(s) ==
  /\ \E k \in 1..Len(responses) :
        /\ responses[k].status = 200
        /\ responses[k].requestId = subs[s].requestId
        /\ ~LacksRequired(responses[k].body)
        /\ responses[k].body.options.qualityMode = <<"fast">>
  /\ JobEnded(s)
  /\ hist[JobOf(subs[s].requestId)].providerError = Undefined

\* stream s has ended with a 'completed' event that carries an image
\* reference, after events of non-decreasing progress
CompletedWithImage(s) ==
  /\ subs[s].ended
  /\ LastEvent(s).status = "completed"
  /\ LastEvent(s).imageUrl \notin {Undefined, EmptyString}
  /\ \A n \in 1..(Len(subs[s].events) - 1) : ~Terminal(subs[s].events[n])
  /\ ProgressMonotone(subs[s].events)

\* C20: for a well-formed 'fast' request whose provider call succeeds, the
\* subscriber of the job's stream, while it stays connected, is eventually
\* sent a final 'completed' event with a non-empty image reference, all
\* events before it having non-decreasing progress.
C20_FastCompletes ==
  \A s \in 1..MaxSubs :
     <>[]((s \in 1..Len(subs) /\ ~subs[s].closed /\ SoleStream(s) /\ FastSucceeded(s))
             => CompletedWithImage(s))

\* the subscriber was sent 'starting' and then the final 'completed' event
C20_Witness ==
  \E s \in 1..Len(subs) :
     /\ ~subs[s].closed
     /\ SoleStream(s)
     /\ FastSucceeded(s)
     /\ CompletedWithImage(s)
     /\ Len(subs[s].events) >= 3
     /\ subs[s].events[2].status = "starting"

\* the accepted responses, and the jobs an accepted response k started
Accepted == { k \in 1..Len(responses) : responses[k].status = 200 }
JobsOf(k) == { j \in 1..Len(jobs) : Id(j) = responses[k].requestId }

\* C21: every accepted POST has created exactly one job, of its own, and that
\* job has made at most one provider call; this holds as well for requests
\* identical to one that is in flight.
C21_OneJobPerRequest ==
  /\ \A k \in Accepted : Cardinality(JobsOf(k)) = 1
  /\ \A k, m \in Accepted : k # m => JobsOf(k) \cap JobsOf(m) = {}
  /\ Len(jobs) = Cardinality(Accepted)
  /\ \A j \in 1..Len(jobs) : hist[j].providerCalls <= 1

\* two identical requests are in flight at the same time, each with its own
\* job and its own provider call
C21_Witness ==
  \E k, m \in Accepted :
     /\ k # m
     /\ responses[k].body = responses[m].body
     /\ \E j \in JobsOf(k) : \E i \in JobsOf(m) :
           /\ j # i
           /\ jobs[j].pc = "provider" /\ jobs[i].pc = "provider"
           /\ hist[j].providerCalls = 1 /\ hist[i].providerCalls = 1

\* ------------------------------------------------ a failing provider call
\* One generation whose provider call fails, followed from the adapter's
\* first fetch to the terminal tracker entry. The current model is an input:
\* the service class offers four providers (the server's instance is never
\* given another model than its default, Pollinations).
Providers == {"pollinations", "huggingface", "replicate", "together"}

\* what the provider answers: 401 for a rejected credential, 500 for a failure
\* of its own, "stuck" for a Replicate prediction that never leaves
\* 'processing'. Error bodies are JSON objects without id, status or data.
FailureKinds(provider) == IF provider = "replicate" THEN {"401", "500", "stuck"} ELSE {"401", "500"}

statusText(kind) == IF kind = "401" THEN "Unauthorized" ELSE "Internal Server Error"

\* aiModelService.ts:165-185
generateWithPollinations(kind) == <<"Failed to generate image with Pollinations">>

\* aiModelService.ts:190-217
generateWithHuggingFace(kind) == <<"Hugging Face API error: " \o statusText(kind)>>

\* aiModelService.ts:249-268: no test of response.ok; result.data is undefined
generateWithTogether(kind) == <<"Cannot read properties of undefined (reading '0')">>

\* aiModelService.ts:317-341, the two errors of pollReplicateResult
ReplicateFailed == <<"Replicate generation failed">>
ReplicateTimeout == <<"Replicate generation timeout">>

\* aiModelService.ts:222-244: no test of response.ok; prediction.id is
\* undefined after an error response, and pollReplicateResult polls
\* predictions/undefined
predictionId(kind) == IF kind = "stuck" THEN <<"p1">> ELSE Undefined

\* the status field of the answer to a status request
polledStatus(kind) == IF kind = "stuck" THEN <<"processing">> ELSE Undefined

FailStart(provider, kind, body) ==
  [provider |-> provider, kind |-> kind, pc |-> "fetch", attempts |-> 0,
   thrown |-> Undefined,
   request |-> aiRequest(optimizedImageRead(body.base64), body.options, 1),
   entry |-> StartingEntry(1)]

InitFail ==
  /\ now = 0
  /\ responses = <<>>
  /\ jobs = <<>>
  /\ activeGenerations = EmptyMap
  /\ resultCache = EmptyMap
  /\ subs = <<>>
  /\ hist = <<>>
  /\ probe \in { FailStart(provider, kind, body) :
                   provider \in Providers, kind \in {"401", "500", "stuck"},
                   body \in { b \in Bodies : ~BodyRejected(b) } }
  /\ probe.kind \in FailureKinds(probe.provider)

\* aiModelService.ts:147-160: the first fetch of the adapter settles
adapterFetch ==
  /\ probe.pc = "fetch"
  /\ probe' = CASE probe.provider = "pollinations" ->
                     [probe EXCEPT !.pc = "thrown", !.thrown = generateWithPollinations(probe.kind)]
                [] probe.provider = "huggingface" ->
                     [probe EXCEPT !.pc = "thrown", !.thrown = generateWithHuggingFace(probe.kind)]
                [] probe.provider = "together" ->
                     [probe EXCEPT !.pc = "thrown", !.thrown = generateWithTogether(probe.kind)]
                [] probe.provider = "replicate" -> [probe EXCEPT !.pc = "poll"]
  /\ UNCHANGED <<now, responses, jobs, activeGenerations, resultCache, subs, hist>>

\* aiModelService.ts:321-340: one turn of the loop of pollReplicateResult, and
\* the throw after the last one
replicatePoll ==
  /\ probe.pc = "poll"
  /\ probe' = IF polledStatus(probe.kind) = <<"succeeded">>
              THEN [probe EXCEPT !.pc = "returned"]
              ELSE IF polledStatus(probe.kind) = <<"failed">>
              THEN [probe EXCEPT !.pc = "thrown", !.thrown = ReplicateFailed]
              ELSE IF probe.attempts + 1 < maxAttempts
              THEN [probe EXCEPT !.attempts = @ + 1]
              ELSE [probe EXCEPT !.attempts = @ + 1, !.pc = "thrown", !.thrown = ReplicateTimeout]
  /\ UNCHANGED <<now, responses, jobs, activeGenerations, resultCache, subs, hist>>

\* server.js:260-266 and 524-531: the catch of generateWithAI drops the error
\* and calls generateDemo; what generateDemo writes before its first await
generateWithAICatch ==
  /\ probe.pc = "thrown"
  /\ LET effect == generateDemo(probe.request, MapSet(EmptyMap, 1, probe.entry), EmptyMap, now)
     IN  probe' = [probe EXCEPT !.pc = effect.pc, !.entry = effect.tracker[1]]
  /\ UNCHANGED <<now, responses, jobs, activeGenerations, resultCache, subs, hist>>

NextFail == adapterFetch \/ replicatePoll \/ generateWithAICatch

SpecFail == InitFail /\ [][NextFail]_vars

\* the terminal entries of the generations whose provider did not reject the
\* credential
OtherFailures ==
  { generateDemo(aiRequest(optimizedImageRead(body.base64), body.options, 1),
                 MapSet(EmptyMap, 1, StartingEntry(1)), EmptyMap, 0).tracker[1] :
      body \in { b \in Bodies : ~BodyRejected(b) } }

\* C22: a generation whose provider rejected the credential ends 'failed'
\* with an error that no generation failing for another reason (a provider
\* error, a timeout) ends with.
C22_AuthDistinguishable ==
  (probe.pc = "done" /\ probe.kind = "401")
    => /\ probe.entry.status = "failed"
       /\ \A e \in OtherFailures : e.error # probe.entry.error

\* --------------------------------------- the client, aiService.generateImage
\* One call of generateImage (aiService.ts:58-128): the POST, then the promise
\* that listens to the progress stream.  `now` is the client's clock in ms.
clientTimeoutMs == 300000
ClientClockStep == clientTimeoutMs \div 5
MaxClientEvents == 3

ClientStart ==
  [pc |-> "post", promise |-> "pending", outcome |-> Undefined, source |-> "none",
   timer |-> "none", due |-> 0, progress |-> 0, terminal |-> FALSE, lost |-> FALSE,
   settles |-> 0]

\* what the POST can end with: the server's answers (server.js:475, 508, 536)
\* and a fetch that rejects
PostOutcomes ==
  { [ok |-> TRUE, requestId |-> 1, error |-> Undefined],
    [ok |-> FALSE, requestId |-> 0, error |-> <<"Missing image or options in request body.">>],
    [ok |-> FALSE, requestId |-> 0, error |-> <<"An unexpected server error occurred.">>],
    [ok |-> FALSE, requestId |-> 0, error |-> <<"<fetch rejected>">>] }

Malformed == [BlankEntry EXCEPT !.type = "<not JSON>"]

\* the events the server writes to a stream (server.js:447-461), and one
\* whose data does not parse
StreamEvents ==
  LET request == aiRequest(Undefined, FastOptions, 1)
  IN  { ConnectedEvent(1), StartingEntry(1), GeneratingEntry(1, 1, 4),
        ResultEntry(1, ProviderResult(request, <<"https://image.pollinations.ai/prompt/...">>, 0)),
        ErrorEntry(1, HashUpdateError), ErrorEntry(1, Undefined), Malformed }

\* a promise whose resolve and reject overwrite an earlier settlement
settleAlways(c, how, value) ==
  [c EXCEPT !.promise = how, !.outcome = value, !.settles = @ + 1]

\* a promise settles once: resolve and reject of a settled promise do nothing
settle(c, how, value) ==
  IF c.promise = "pending"
  THEN [c EXCEPT !.promise = how, !.outcome = value, !.settles = @ + 1]
  ELSE c

\* eventSource.close()
close(c) == [c EXCEPT !.source = "closed"]

\* aiService.ts:89-107
onmessage(c, data) ==
  IF data = Malformed THEN c
  ELSE LET c1 == [c EXCEPT !.progress = @ + 1]
       IN  IF data.type = "result" /\ data.status = "completed"
           THEN [settle(close(c1), "resolved", data.imageUrl) EXCEPT !.terminal = TRUE]
           ELSE IF data.type = "error" \/ data.status = "failed"
           THEN [settle(close(c1), "rejected", OrElse(data.error, <<"Generation failed">>))
                   EXCEPT !.terminal = TRUE]
           ELSE c1

\* aiService.ts:109-113
onerror(c) == [settle(close(c), "rejected", <<"Connection to generation service lost">>) EXCEPT !.lost = TRUE]

\* a timer callback that closes the stream and leaves the promise alone
onTimeoutCloseOnly(c) == close(c)

\* aiService.ts:116-119
onTimeout(c) == settle(close(c), "rejected", <<"Generation timeout">>)

InitClient ==
  /\ now = 0
  /\ responses = <<>>
  /\ jobs = <<>>
  /\ activeGenerations = EmptyMap
  /\ resultCache = EmptyMap
  /\ subs = <<>>
  /\ hist = <<>>
  /\ probe = ClientStart

\* aiService.ts:65-88 and 116-128: the POST settles; the stream is opened and
\* the timer set, or the call throws
clientPost(r) ==
  /\ probe.pc = "post"
  /\ probe' = IF r.error = <<"<fetch rejected>">>
              THEN [settle(probe, "rejected", <<"Failed to connect to the AI server. Is it running?">>)
                      EXCEPT !.pc = "returned"]
              ELSE IF ~r.ok
              THEN [settle(probe, "rejected", r.error) EXCEPT !.pc = "returned"]
              ELSE IF r.requestId = 0
              THEN [settle(probe, "rejected", <<"No request ID received from server">>)
                      EXCEPT !.pc = "returned"]
              ELSE [probe EXCEPT !.pc = "listening", !.source = "open", !.timer = "armed",
                                 !.due = now + clientTimeoutMs]
  /\ UNCHANGED <<now, responses, jobs, activeGenerations, resultCache, subs, hist>>

\* an event arrives on the open stream
clientMessage(data) ==
  /\ probe.pc = "listening"
  /\ probe.source = "open"
  /\ probe.progress < MaxClientEvents
  /\ probe' = onmessage(probe, data)
  /\ UNCHANGED <<now, responses, jobs, activeGenerations, resultCache, subs, hist>>

\* the open stream fails
clientStreamError ==
  /\ probe.pc = "listening"
  /\ probe.source = "open"
  /\ probe' = onerror(probe)
  /\ UNCHANGED <<now, responses, jobs, activeGenerations, resultCache, subs, hist>>

\* time passes, up to the moment the timer is due
clientElapse ==
  /\ probe.timer = "armed"
  /\ now < probe.due
  /\ now' = now + ClientClockStep
  /\ UNCHANGED <<responses, jobs, activeGenerations, resultCache, subs, hist, probe>>

\* the timer set at aiService.ts:116 fires; it is never cleared
clientTimeout ==
  /\ probe.timer = "armed"
  /\ now >= probe.due
  /\ probe' = [onTimeout(probe) EXCEPT !.timer = "fired"]
  /\ UNCHANGED <<now, responses, jobs, activeGenerations, resultCache, subs, hist>>

NextClient ==
  \/ \E r \in PostOutcomes : clientPost(r)
  \/ \E data \in StreamEvents : clientMessage(data)
  \/ clientStreamError
  \/ clientElapse
  \/ clientTimeout

SpecClient == InitClient /\ [][NextClient]_vars

\* time advances and a due timer fires
SpecClientLive == InitClient /\ [][NextClient]_vars /\ WF_vars(clientElapse) /\ WF_vars(clientTimeout)

\* C23: a call that listens without receiving a terminal event (and without a
\* stream error) for 5 minutes is rejected with 'Generation timeout' and its
\* event source is closed; no call is pending after its timer has fired or
\* past the 5 minutes, and every listening call eventually settles.
C23_ClientTimeout ==
  /\ [](probe.timer = "fired" => probe.promise # "pending" /\ probe.source = "closed")
  /\ []((probe.timer = "fired" /\ ~probe.terminal /\ ~probe.lost)
          => (probe.promise = "rejected" /\ probe.outcome = <<"Generation timeout">>))
  /\ []((probe.pc = "listening" /\ probe.promise = "pending") => now <= probe.due)
  /\ (probe.pc = "listening" ~> probe.promise # "pending")

\* 5 minutes passed with progress events only; the call ended with the timeout
C23_Witness ==
  /\ probe.timer = "fired"
  /\ now = clientTimeoutMs
  /\ probe.progress > 0
  /\ ~probe.terminal /\ ~probe.lost
  /\ probe.promise = "rejected" /\ probe.outcome = <<"Generation timeout">>
  /\ probe.source = "closed"

\* ------------------------------- the quality profiles and the prompt builders
\* comfyUIService.ts:120-149, the three cases of the switch
QualityParams(mode) ==
  CASE mode = <<"fast">> ->
         [width |-> 640, height |-> 896, steps |-> 8, cfg |-> Num("3.0"),
          sampler |-> <<"dpmpp_2m">>, scheduler |-> <<"karras">>, model |-> <<"flux1-schnell.safetensors">>]
    [] mode = <<"balanced">> ->
         [width |-> 768, height |-> 1024, steps |-> 16, cfg |-> Num("3.5"),
          sampler |-> <<"euler">>, scheduler |-> <<"simple">>, model |-> <<"flux1-dev.safetensors">>]
    [] mode = <<"high">> ->
         [width |-> 1024, height |-> 1366, steps |-> 24, cfg |-> Num("4.0"),
          sampler |-> <<"dpmpp_2m">>, scheduler |-> <<"karras">>, model |-> <<"flux1-dev.safetensors">>]

\* a resolver whose default branch returns the fast profile
getQualityParamsFastDefault(mode) ==
  IF mode \in { <<"fast">>, <<"balanced">>, <<"high">> } THEN QualityParams(mode)
  ELSE QualityParams(<<"fast">>)

\* comfyUIService.ts:118-153; the default branch calls getQualityParams('balanced')
getQualityParams(mode) ==
  IF mode \in { <<"fast">>, <<"balanced">>, <<"high">> } THEN QualityParams(mode)
  ELSE QualityParams(<<"balanced">>)

\* enhancedAIService.ts:161-172
getOptimalDimensions(qualityMode) ==
  CASE qualityMode = <<"fast">> -> [width |-> 640, height |-> 896]
    [] qualityMode = <<"balanced">> -> [width |-> 768, height |-> 1024]
    [] qualityMode = <<"high">> -> [width |-> 1024, height |-> 1366]
    [] OTHER -> [width |-> 768, height |-> 1024]

\* enhancedAIService.ts:177-184
getOptimalSteps(qualityMode) ==
  CASE qualityMode = <<"fast">> -> 8
    [] qualityMode = <<"balanced">> -> 16
    [] qualityMode = <<"high">> -> 24
    [] OTHER -> 16

\* comfyUIService.ts:247-268.  A prompt is the sequence of the pieces the
\* template puts one after the other.
buildAdvancedPrompt(request) ==
  LET qualityTokens ==
        IF request.qualityMode = <<"high">>
        THEN <<"ultra photorealistic, hyper-detailed, professional commercial photography, 8K resolution, RAW photo quality, perfect skin texture, natural lighting, sharp focus, depth of field, bokeh, cinematic composition">>
        ELSE IF request.qualityMode = <<"fast">>
        THEN <<"photorealistic portrait, professional photography, high quality, detailed">>
        ELSE <<"ultra photorealistic studio portrait, professional photography, high detail, sharp focus">>
      cameraSpecs ==
        IF request.qualityMode = <<"high">>
        THEN <<"shot with Canon EOS R5, 85mm lens, f/2.8, natural skin tones, professional retouching">>
        ELSE <<"professional camera, portrait lens, natural lighting">>
      basePrompt == qualityTokens \o <<", ">> \o Str(request.targetPrompt) \o <<", ">> \o cameraSpecs
      bodyParams == <<"body composition: ">> \o Str(request.bodyType)
                      \o <<", pose and expression: ">> \o Str(request.pose)
      environmentParams == <<"setting: ">> \o Str(request.background)
                             \o <<", lighting setup: ">> \o Str(request.lighting)
      styleParams == <<"photographic style: ">> \o Str(request.style)
                       \o <<", masterpiece quality, best composition">>
  IN  basePrompt \o <<", ">> \o bodyParams \o <<", ">> \o environmentParams \o <<", ">> \o styleParams

\* server.js:190-213; qualityTokens[qualityMode] and cameraSpecs[qualityMode]
\* are undefined for a mode that is not a key
serverBuildAdvancedPrompt(options) ==
  LET qualityMode == OrElse(options.qualityMode, <<"balanced">>)
      qualityTokens ==
        CASE qualityMode = <<"fast">> -> <<"photorealistic portrait, professional photography, high quality, detailed">>
          [] qualityMode = <<"balanced">> -> <<"ultra photorealistic studio portrait, professional photography, high detail, sharp focus, 8K resolution">>
          [] qualityMode = <<"high">> -> <<"ultra photorealistic, hyper-detailed, professional commercial photography, 8K resolution, RAW photo quality, perfect skin texture, natural lighting, sharp focus, depth of field, bokeh, cinematic composition">>
          [] OTHER -> Undefined
      cameraSpecs ==
        CASE qualityMode = <<"fast">> -> <<"professional camera setup">>
          [] qualityMode = <<"balanced">> -> <<"professional portrait photography, natural skin tones">>
          [] qualityMode = <<"high">> -> <<"shot with Canon EOS R5, 85mm lens, f/2.8, professional retouching, studio lighting setup">>
          [] OTHER -> Undefined
      basePrompt == Str(qualityTokens)
      bodyParams == <<"body composition: ">> \o OrElse(options.bodyType, <<"model-like proportions">>)
                      \o <<", pose and expression: ">> \o Str(options.pose)
      environmentParams == <<"setting: ">> \o Str(options.background)
                             \o <<", lighting setup: ">> \o Str(options.lighting)
      styleParams == <<"photographic style: ">> \o Str(options.style) \o <<", ">>
                       \o Str(cameraSpecs) \o <<", masterpiece quality">>
  IN  basePrompt \o <<", ">> \o bodyParams \o <<", ">> \o environmentParams \o <<", ">> \o styleParams

\* comfyUIService.ts:158-242, the parameters the workflow takes from the
\* profile and the prompt
buildFluxPuLIDWorkflow(request) ==
  LET params == getQualityParams(request.qualityMode)
  IN  [steps |-> params.steps, cfg |-> params.cfg, sampler_name |-> params.sampler,
       scheduler |-> params.scheduler, ckpt_name |-> params.model,
       width |-> params.width, height |-> params.height,
       text |-> buildAdvancedPrompt(request)]

\* the values of qualityMode: the three modes, another string, none
QualityModes == { <<"fast">>, <<"balanced">>, <<"high">>, <<"ultra">>, Undefined }

\* FaceSwapRequest (comfyUIService.ts:14-25); its option fields are those of
\* the options object the server's builder reads
ProfileRequests ==
  { [targetPrompt |-> <<"portrait of the person">>, bodyType |-> bodyType, pose |-> <<"smiling">>,
     background |-> <<"studio">>, lighting |-> <<"soft">>, style |-> style,
     qualityMode |-> qualityMode] :
      bodyType \in { <<"athletic">>, Undefined },
      style \in { <<"editorial">>, <<"cinematic">> },
      qualityMode \in QualityModes }

NotBuilt == <<>>

InitProfile ==
  /\ now = 0
  /\ responses = <<>>
  /\ jobs = <<>>
  /\ activeGenerations = EmptyMap
  /\ resultCache = EmptyMap
  /\ subs = <<>>
  /\ hist = <<>>
  /\ probe \in { [request |-> r, workflow |-> NotBuilt, generation |-> NotBuilt, serverPrompt |-> NotBuilt] :
                   r \in ProfileRequests }

\* comfyUIService.ts:63-64: generateWithComfyAI builds the workflow
ComfyWorkflow ==
  /\ probe.workflow = NotBuilt
  /\ probe' = [probe EXCEPT !.workflow = buildFluxPuLIDWorkflow(probe.request)]
  /\ UNCHANGED <<now, responses, jobs, activeGenerations, resultCache, subs, hist>>

\* enhancedAIService.ts:41-60: generateImage builds its generation request
EnhancedRequest ==
  /\ probe.generation = NotBuilt
  /\ probe' = [probe EXCEPT !.generation =
                 [width |-> getOptimalDimensions(probe.request.qualityMode).width,
                  height |-> getOptimalDimensions(probe.request.qualityMode).height,
                  steps |-> getOptimalSteps(probe.request.qualityMode)]]
  /\ UNCHANGED <<now, responses, jobs, activeGenerations, resultCache, subs, hist>>

\* server.js:190-213 applied to the options
ServerPrompt ==
  /\ probe.serverPrompt = NotBuilt
  /\ probe' = [probe EXCEPT !.serverPrompt = serverBuildAdvancedPrompt(probe.request)]
  /\ UNCHANGED <<now, responses, jobs, activeGenerations, resultCache, subs, hist>>

NextProfile == ComfyWorkflow \/ EnhancedRequest \/ ServerPrompt

SpecProfile == InitProfile /\ [][NextProfile]_vars

\* the documented table: resolution, steps and model of each mode
ProfileTable(mode) ==
  CASE mode = <<"fast">> -> [width |-> 640, height |-> 896, steps |-> 8, model |-> <<"flux1-schnell.safetensors">>]
    [] mode = <<"balanced">> -> [width |-> 768, height |-> 1024, steps |-> 16, model |-> <<"flux1-dev.safetensors">>]
    [] mode = <<"high">> -> [width |-> 1024, height |-> 1366, steps |-> 24, model |-> <<"flux1-dev.safetensors">>]

Documented(mode) ==
  IF mode \in { <<"fast">>, <<"balanced">>, <<"high">> } THEN ProfileTable(mode)
  ELSE ProfileTable(<<"balanced">>)

\* C24: for fast, balanced and high the resolved profile is the table's
\* (resolution, steps, model), and for any other qualityMode it is the
\* balanced profile, in getQualityParams as in getOptimalDimensions and
\* getOptimalSteps.
C24_ProfileTable ==
  LET mode == probe.request.qualityMode
  IN  /\ probe.workflow # NotBuilt =>
           /\ probe.workflow.width = Documented(mode).width
           /\ probe.workflow.height = Documented(mode).height
           /\ probe.workflow.steps = Documented(mode).steps
           /\ probe.workflow.ckpt_name = Documented(mode).model
           /\ (mode \notin { <<"fast">>, <<"high">> } =>
                 /\ probe.workflow.cfg = Num("3.5")
                 /\ probe.workflow.sampler_name = <<"euler">>
                 /\ probe.workflow.scheduler = <<"simple">>)
      /\ probe.generation # NotBuilt =>
           /\ probe.generation.width = Documented(mode).width
           /\ probe.generation.height = Documented(mode).height
           /\ probe.generation.steps = Documented(mode).steps

\* an unknown mode has been resolved by both resolvers, to the balanced profile
C24_Witness ==
  /\ probe.request.qualityMode = <<"ultra">>
  /\ probe.workflow # NotBuilt /\ probe.generation # NotBuilt
  /\ probe.workflow.steps = 16 /\ probe.workflow.ckpt_name = <<"flux1-dev.safetensors">>
  /\ probe.generation.width = 768 /\ probe.generation.steps = 16

\* the resolution and steps of the documented profile, as the values of a
\* generation request
ProfileOfCall(mode) ==
  CASE mode = <<"fast">> -> [width |-> Num("640"), height |-> Num("896"), steps |-> Num("8")]
    [] mode = <<"high">> -> [width |-> Num("1024"), height |-> Num("1366"), steps |-> Num("24")]
    [] OTHER -> [width |-> Num("768"), height |-> Num("1024"), steps |-> Num("16")]

\* C25: the provider call of every accepted request carries the width, height
\* and steps of the profile of the request's qualityMode.
C25_CallCarriesProfile ==
  \A j \in 1..Len(jobs) :
     LET profile == ProfileOfCall(jobs[j].request.qualityMode)
     IN  /\ hist[j].call.width = profile.width
         /\ hist[j].call.height = profile.height
         /\ hist[j].call.steps = profile.steps

\* C28: the request handed to the orchestrator and to the provider call
\* carries the optimized image as its source image.
C28_SourceImageForwarded ==
  \A j \in 1..Len(jobs) :
     /\ jobs[j].request.sourceImage # Undefined
     /\ hist[j].call.sourceImage # Undefined

\* C29: a job whose provider call failed falls back to the demo generation
\* and ends with a completed result.
C29_FallbackCompletes ==
  \A j \in 1..Len(jobs) :
     (hist[j].providerError # Undefined /\ jobs[j].pc = "done")
       => \A e \in Outcome(j) : e.type = "result" /\ e.status = "completed"

\* the pieces that open each section of a positive prompt
QualitySection ==
  { "photorealistic portrait, professional photography, high quality, detailed",
    "ultra photorealistic studio portrait, professional photography, high detail, sharp focus",
    "ultra photorealistic studio portrait, professional photography, high detail, sharp focus, 8K resolution",
    "ultra photorealistic, hyper-detailed, professional commercial photography, 8K resolution, RAW photo quality, perfect skin texture, natural lighting, sharp focus, depth of field, bokeh, cinematic composition" }
CameraSection ==
  { "professional camera, portrait lens, natural lighting",
    "shot with Canon EOS R5, 85mm lens, f/2.8, natural skin tones, professional retouching",
    "professional camera setup",
    "professional portrait photography, natural skin tones",
    "shot with Canon EOS R5, 85mm lens, f/2.8, professional retouching, studio lighting setup" }
SubjectSection == { "portrait of the person" }

\* the place of the first piece of a section in the prompt, 0 when the
\* prompt has no such piece
Place(prompt, pieces) ==
  LET at == { i \in 1..Len(prompt) : prompt[i] \in pieces }
  IN  IF at = {} THEN 0 ELSE CHOOSE i \in at : \A k \in at : i <= k

SectionOrder(prompt) ==
  /\ 0 < Place(prompt, QualitySection)
  /\ Place(prompt, QualitySection) < Place(prompt, CameraSection)
  /\ Place(prompt, CameraSection) < Place(prompt, SubjectSection)
  /\ Place(prompt, SubjectSection) < Place(prompt, {"body composition: "})
  /\ Place(prompt, {"body composition: "}) < Place(prompt, {"setting: "})
  /\ Place(prompt, {"setting: "}) < Place(prompt, {"photographic style: "})

\* C26: every positive prompt a prompt builder has produced has its sections
\* in the order quality tokens, camera specs, subject prompt, body
\* composition, environment, style.
C26_SectionOrder ==
  /\ probe.workflow # NotBuilt => SectionOrder(probe.workflow.text)
  /\ probe.serverPrompt # NotBuilt => SectionOrder(probe.serverPrompt)

\* the order the builder of ComfyUIService does keep: the subject prompt
\* stands between the quality tokens and the camera specs
ComfySectionOrder ==
  probe.workflow # NotBuilt =>
    LET prompt == probe.workflow.text
    IN  /\ 0 < Place(prompt, QualitySection)
        /\ Place(prompt, QualitySection) < Place(prompt, SubjectSection)
        /\ Place(prompt, SubjectSection) < Place(prompt, CameraSection)
        /\ Place(prompt, CameraSection) < Place(prompt, {"body composition: "})
        /\ Place(prompt, {"body composition: "}) < Place(prompt, {"setting: "})
        /\ Place(prompt, {"setting: "}) < Place(prompt, {"photographic style: "})

\* --------------------------------------------- the app's model selection
\* aiModelService.ts:17-118, the models in the order of the array
models ==
  << [name |-> "FLUX.1-dev Uncensored", provider |-> "huggingface", supportsFaceSwap |-> FALSE, isUncensored |-> TRUE],
     [name |-> "Stable Diffusion XL Uncensored", provider |-> "huggingface", supportsFaceSwap |-> FALSE, isUncensored |-> TRUE],
     [name |-> "Realistic Vision V6.0", provider |-> "huggingface", supportsFaceSwap |-> TRUE, isUncensored |-> TRUE],
     [name |-> "FLUX Schnell Uncensored", provider |-> "replicate", supportsFaceSwap |-> FALSE, isUncensored |-> TRUE],
     [name |-> "SDXL Lightning Uncensored", provider |-> "replicate", supportsFaceSwap |-> FALSE, isUncensored |-> TRUE],
     [name |-> "Pollinations FLUX", provider |-> "pollinations", supportsFaceSwap |-> FALSE, isUncensored |-> TRUE],
     [name |-> "FLUX.1 Schnell Together", provider |-> "together", supportsFaceSwap |-> FALSE, isUncensored |-> TRUE] >>

MaxGenerations == 2

\* models.find(m => m.name === modelName): the first model of that name, or none
find(modelName) == { models[i] : i \in { k \in 1..Len(models) :
                       /\ models[k].name = modelName
                       /\ \A n \in 1..(k - 1) : models[n].name # modelName } }

\* aiModelService.ts:122-125: a new service instance
newAIModelService ==
  IF find("Pollinations FLUX") # {} THEN CHOOSE m \in find("Pollinations FLUX") : TRUE ELSE models[1]

\* aiModelService.ts:130-132
getAvailableModels == SelectSeq(models, LAMBDA m : m.isUncensored)

\* a setModel that falls back to the first model when the name is unknown
setModelOrFirst(currentModel, modelName) ==
  IF find(modelName) # {} THEN CHOOSE m \in find(modelName) : TRUE ELSE models[1]

\* aiModelService.ts:137-142: the current model of the instance after setModel
setModel(currentModel, modelName) ==
  IF find(modelName) # {} THEN CHOOSE m \in find(modelName) : TRUE ELSE currentModel

\* The three components and the service instance each of them creates with
\* useState(new ...): ModelSelector (ModelSelector.tsx:11), the control panel
\* (its file, :48) and App (App.tsx).  A service is represented by the current
\* model of its AIModelService.
InitApp ==
  /\ now = 0
  /\ responses = <<>>
  /\ jobs = <<>>
  /\ activeGenerations = EmptyMap
  /\ resultCache = EmptyMap
  /\ subs = <<>>
  /\ hist = <<>>
  /\ probe = [mounted |-> FALSE,
              selectedModel |-> "",             \* state of the control panel, null at first
              userSelected |-> "",              \* the model the user clicked last, if any
              selectorService |-> newAIModelService,
              panelService |-> newAIModelService,
              appService |-> newAIModelService,
              generations |-> <<>>]

\* the effect of the control panel (its file, :52-59): the default model
PanelMount ==
  /\ ~probe.mounted
  /\ probe' = IF Len(getAvailableModels) > 0
              THEN [probe EXCEPT !.mounted = TRUE,
                                 !.selectedModel = getAvailableModels[1].name,
                                 !.panelService = setModel(@, getAvailableModels[1].name)]
              ELSE [probe EXCEPT !.mounted = TRUE]
  /\ UNCHANGED <<now, responses, jobs, activeGenerations, resultCache, subs, hist>>

\* ModelSelector.tsx:18-21 handleModelSelect, whose onModelChange is the
\* panel's handleModelChange (its file, :65-68)
handleModelSelect(model) ==
  /\ probe.mounted
  /\ probe' = [probe EXCEPT !.selectorService = setModel(@, model.name),
                            !.selectedModel = model.name,
                            !.panelService = setModel(@, model.name),
                            !.userSelected = model.name]
  /\ UNCHANGED <<now, responses, jobs, activeGenerations, resultCache, subs, hist>>

\* the panel's handleSubmit calls App.handleGeneration, which generates with
\* App's service; AIModelService.generateImage (aiModelService.ts:147-160)
\* takes the adapter of that instance's current model
handleGeneration ==
  /\ probe.mounted
  /\ Len(probe.generations) < MaxGenerations
  /\ probe' = [probe EXCEPT !.generations =
                 Append(@, [selected |-> probe.userSelected,
                            shown |-> probe.selectedModel,
                            model |-> probe.appService.name,
                            provider |-> probe.appService.provider])]
  /\ UNCHANGED <<now, responses, jobs, activeGenerations, resultCache, subs, hist>>

NextApp ==
  \/ PanelMount
  \/ \E i \in 1..Len(getAvailableModels) : handleModelSelect(getAvailableModels[i])
  \/ handleGeneration

SpecApp == InitApp /\ [][NextApp]_vars

\* C27: a generation started after the user selected a model is performed by
\* the provider of the selected model.
C27_SelectedModelGenerates ==
  \A g \in 1..Len(probe.generations) :
     probe.generations[g].selected # "" =>
        /\ probe.generations[g].model = probe.generations[g].selected
        /\ \E m \in find(probe.generations[g].selected) :
              probe.generations[g].provider = m.provider

\* C30: the poll loop of the synchronous /api/generate handler is bounded:
\* the handler ends and sends its response even when the prediction never
\* reaches succeeded, failed or canceled.
C30_HandlerTerminates == (probe.adapter = "handler") ~> (probe.pc = "done")

\* the loop of pollReplicateResult, which counts its attempts, does end
ServiceTerminates == (probe.adapter = "service") ~> (probe.pc = "done")

\* job j has written its terminal entry and no stream was opened for it
DoneUnwatched(j) ==
  /\ jobs[j].pc = "done"
  /\ \A s \in 1..Len(subs) : subs[s].requestId # Id(j)

\* stream s was opened after its job had written its terminal entry, as the
\* only stream of that job
LateSubscriber(s) == subs[s].late /\ SoleStream(s)

\* stream s was sent 'connected', then the terminal entry of its job, and
\* was closed by the server
ServedTerminal(s) ==
  /\ subs[s].ended
  /\ Len(subs[s].events) = 2
  /\ subs[s].events[2] \in Outcome(JobOf(subs[s].requestId))

\* C31: the terminal entry of a job that ended before any client subscribed
\* stays in the tracker; the subscriber that connects afterwards is sent
\* nothing but that terminal event, which closes its stream, and while it
\* stays connected it is eventually sent it.
C31_LateSubscriberServed ==
  /\ [](\A j \in 1..Len(jobs) :
          DoneUnwatched(j) => /\ Id(j) \in DOMAIN activeGenerations
                              /\ activeGenerations[Id(j)] \in Outcome(j))
  /\ [](\A s \in 1..Len(subs) :
          (LateSubscriber(s) /\ ~subs[s].closed) =>
             \/ ServedTerminal(s)
             \/ /\ Len(subs[s].events) = 1
                /\ subs[s].requestId \in DOMAIN activeGenerations
                /\ activeGenerations[subs[s].requestId] \in Outcome(JobOf(subs[s].requestId)))
  /\ \A s \in 1..MaxSubs :
        <>[]((s \in 1..Len(subs) /\ LateSubscriber(s) /\ ~subs[s].closed) => ServedTerminal(s))

\* a subscriber that connected after the end of the job has been sent the
\* terminal event
C31_Witness ==
  \E s \in 1..Len(subs) :
     /\ LateSubscriber(s)
     /\ ~subs[s].closed
     /\ ServedTerminal(s)
     /\ subs[s].requestId \notin DOMAIN activeGenerations

\* ------------------------------------------- ComfyUIService.generatePortrait
\* One call of generatePortrait (comfyUIService.ts:44-58) for either
\* provider: the submit request, then pollForCompletion (273-317) or
\* pollRunComfyStatus (322-361).
comfyMaxAttempts == 120
runComfyMaxAttempts == 60

pollMaxAttempts(provider) == IF provider = "comfyai" THEN comfyMaxAttempts ELSE runComfyMaxAttempts

\* comfyUIService.ts:279 and 327: the wait before the poll of an attempt
pollInterval(provider, attempts) ==
  IF provider = "comfyai"
  THEN IF attempts < 5 THEN 1000 ELSE IF attempts < 20 THEN 2000 ELSE 3000
  ELSE 5000

\* what the submit request can end with
SubmitOutcomes == {"ok", "not ok", "rejected", "not JSON"}

\* what a status request can end with: a terminal status, another status, or
\* an error of the transport or of the parser
PollOutcomes == {"completed", "failed", "failed with error", "other", "rejected", "not JSON"}

PortraitStart(provider) ==
  [provider |-> provider, pc |-> "submit", attempts |-> 0, polls |-> 0, waited |-> 0,
   lastPoll |-> "", promise |-> "pending",
   result |-> [status |-> "", imageUrl |-> Undefined, error |-> Undefined]]

\* the async function returns a value
Returned(p, status, imageUrl, error) ==
  [p EXCEPT !.pc = "done", !.promise = "resolved",
            !.result = [status |-> status, imageUrl |-> imageUrl, error |-> error]]

\* a generatePortrait without its catch: the error leaves the call
portraitRethrow(p, message) ==
  [p EXCEPT !.pc = "done", !.promise = "rejected", !.result.error = message]

\* comfyUIService.ts:51-57: the catch of generatePortrait
portraitCatch(p, message) == Returned(p, "failed", Undefined, message)

\* comfyUIService.ts:77-79 and 107-109
submitError(provider) ==
  IF provider = "comfyai" THEN <<"ComfyAI generation failed: Internal Server Error">>
  ELSE <<"RunComfy generation failed: Internal Server Error">>

\* comfyUIService.ts:313-316 and 357-360
timeoutResult(p) ==
  Returned(p, "failed", Undefined,
           IF p.provider = "comfyai"
           THEN <<"Generation timeout - try using fast mode for quicker results">>
           ELSE <<"Generation timeout">>)

InitComfy ==
  /\ now = 0
  /\ responses = <<>>
  /\ jobs = <<>>
  /\ activeGenerations = EmptyMap
  /\ resultCache = EmptyMap
  /\ subs = <<>>
  /\ hist = <<>>
  /\ probe \in { PortraitStart(provider) : provider \in {"comfyai", "runcomfy"} }

\* comfyUIService.ts:63-83 and 88-113: the submit request settles; the loop
\* is entered with attempts = 0
portraitSubmit(outcome) ==
  /\ probe.pc = "submit"
  /\ probe' = CASE outcome = "ok" -> [probe EXCEPT !.pc = "wait"]
                [] outcome = "not ok" -> portraitCatch(probe, submitError(probe.provider))
                [] outcome = "rejected" -> portraitCatch(probe, <<"fetch failed">>)
                [] outcome = "not JSON" -> portraitCatch(probe, <<"Unexpected token < in JSON at position 0">>)
  /\ UNCHANGED <<now, responses, jobs, activeGenerations, resultCache, subs, hist>>

\* comfyUIService.ts:279-280 and 327: the wait of the attempt ends
pollSleep ==
  /\ probe.pc = "wait"
  /\ probe' = [probe EXCEPT !.waited = @ + pollInterval(probe.provider, probe.attempts),
                            !.pc = "poll"]
  /\ UNCHANGED <<now, responses, jobs, activeGenerations, resultCache, subs, hist>>

\* the catch of the loop without its attempts++
pollErrorNoCount(p) == [p EXCEPT !.lastPoll = "error"]

\* comfyUIService.ts:307-310 and 351-354: the catch inside the loop
pollError(p) == [p EXCEPT !.attempts = @ + 1, !.lastPoll = "error"]

\* comfyUIService.ts:282-311 and 329-355: the status request settles; then
\* the loop condition (277, 326) and, past the loop, the timeout result
pollStatus(outcome) ==
  /\ probe.pc = "poll"
  /\ probe' =
       LET p == [probe EXCEPT !.polls = @ + 1]
           next == IF outcome \in {"rejected", "not JSON"} THEN pollError(p)
                   ELSE [p EXCEPT !.attempts = @ + 1, !.lastPoll = "status"]
       IN  CASE outcome = "completed" ->
                  Returned(p, "completed", <<"https://comfy/output.png">>, Undefined)
             [] outcome = "failed" -> Returned(p, "failed", Undefined, <<"Generation failed">>)
             [] outcome = "failed with error" -> Returned(p, "failed", Undefined, <<"out of memory">>)
             [] OTHER -> IF next.attempts < pollMaxAttempts(p.provider)
                         THEN [next EXCEPT !.pc = "wait"]
                         ELSE timeoutResult(next)
  /\ UNCHANGED <<now, responses, jobs, activeGenerations, resultCache, subs, hist>>

NextComfy ==
  \/ \E outcome \in SubmitOutcomes : portraitSubmit(outcome)
  \/ pollSleep
  \/ \E outcome \in PollOutcomes : pollStatus(outcome)

SpecComfy == InitComfy /\ [][NextComfy]_vars

C33_PollErrorsCounted ==
  /\ probe.polls <= pollMaxAttempts(probe.provider)
  /\ probe.attempts <= pollMaxAttempts(probe.provider)
  /\ probe.pc \in {"wait", "poll"} => probe.polls = probe.attempts
  /\ (probe.pc = "wait" /\ probe.lastPoll = "error") => probe.attempts < pollMaxAttempts(probe.provider)
  /\ probe.attempts = pollMaxAttempts(probe.provider) =>
        /\ probe.pc = "done"
        /\ probe.polls = pollMaxAttempts(probe.provider)
        /\ probe.result.status = "failed"
        /\ probe.result.error \in { <<"Generation timeout - try using fast mode for quicker results">>,
                                    <<"Generation timeout">> }

\* the last of the 120 polls failed and the loop returned the timeout result
C33_Witness ==
  /\ probe.provider = "comfyai"
  /\ probe.pc = "done"
  /\ probe.lastPoll = "error"
  /\ probe.polls = 120
  /\ probe.result.status = "failed"
  /\ probe.result.error = <<"Generation timeout - try using fast mode for quicker results">>

\* C34: the waits of pollForCompletion sum to at most 4 minutes.
C34_WaitsWithinFourMinutes ==
  probe.provider = "comfyai" => probe.waited <= 240000

\* --------------------------------- one EnhancedAIService and its AIModelService
MaxSets == 2

\* the names handed to setModel: those of the configured models and one that
\* matches none
ModelNames == { models[i].name : i \in 1..Len(models) } \cup {"No Such Model"}

\* aiModelService.ts:293 and 147-160: generateFaceSwap hands its request to
\* this.generateImage, which takes the adapter of this.currentModel; the
\* model id in request.model is read by no adapter
faceSwapGenerator(currentModel, faceSwapModel) == currentModel

\* enhancedAIService.ts:196 and 201: getAvailableModels()[0]?.name || 'Unknown'
modelUsed(currentModel) ==
  IF Len(getAvailableModels) > 0 THEN getAvailableModels[1].name ELSE "Unknown"

\* a save whose error leaves saveToHistory
saveFailedUncaught(call) == [call EXCEPT !.pc = "done", !.promise = "rejected",
                                         !.value = <<"save failed">>]

\* enhancedAIService.ts:207-209 and 77: the catch of saveToHistory; the call
\* returns the image URL
saveFailed(call) == [call EXCEPT !.pc = "done", !.promise = "resolved", !.value = call.imageUrl]

InitService ==
  /\ now = 0
  /\ responses = <<>>
  /\ jobs = <<>>
  /\ activeGenerations = EmptyMap
  /\ resultCache = EmptyMap
  /\ subs = <<>>
  /\ hist = <<>>
  /\ probe = [models |-> models, currentModel |-> newAIModelService,
              setCalls |-> <<>>, calls |-> <<>>, history |-> <<>>]

\* enhancedAIService.ts:260-262 and aiModelService.ts:137-142
serviceSetModel(modelName) ==
  /\ Len(probe.setCalls) < MaxSets
  /\ probe' = [probe EXCEPT !.currentModel = setModel(@, modelName),
                            !.setCalls = Append(@, [modelName |-> modelName,
                                                    before |-> probe.currentModel,
                                                    after |-> setModel(probe.currentModel, modelName)])]
  /\ UNCHANGED <<now, responses, jobs, activeGenerations, resultCache, subs, hist>>

\* enhancedAIService.ts:39-68 up to the await: the first progress event and
\* the provider call with the adapter of the current model
serviceGenerateImage ==
  /\ Len(probe.calls) < MaxGenerations
  /\ probe' = [probe EXCEPT !.calls =
                 Append(@, [kind |-> "image", pc |-> "provider",
                            current |-> probe.currentModel.name,
                            generator |-> probe.currentModel,
                            progress |-> << Num("0.1") >>,
                            promise |-> "pending", imageUrl |-> Undefined, value |-> Undefined,
                            modelUsed |-> "", saved |-> FALSE])]
  /\ UNCHANGED <<now, responses, jobs, activeGenerations, resultCache, subs, hist>>

\* enhancedAIService.ts:93-104 and aiModelService.ts:273-293 up to the await
serviceGenerateFaceSwap ==
  /\ Len(probe.calls) < MaxGenerations
  /\ LET faceSwapModels == { k \in 1..Len(probe.models) :
                               probe.models[k].supportsFaceSwap /\ probe.models[k].isUncensored }
         blank == [kind |-> "faceswap", pc |-> "provider",
                   current |-> probe.currentModel.name,
                   generator |-> probe.currentModel,
                   progress |-> << Num("0.2") >>,
                   promise |-> "pending", imageUrl |-> Undefined, value |-> Undefined,
                   modelUsed |-> "", saved |-> FALSE]
     IN  probe' = [probe EXCEPT !.calls =
            Append(@, IF faceSwapModels = {}
                      THEN [blank EXCEPT !.pc = "done", !.promise = "rejected",
                                         !.value = <<"No face swap model available">>]
                      ELSE [blank EXCEPT !.generator =
                              faceSwapGenerator(probe.currentModel,
                                 probe.models[CHOOSE k \in faceSwapModels :
                                                 \A n \in faceSwapModels : k <= n])])]
  /\ UNCHANGED <<now, responses, jobs, activeGenerations, resultCache, subs, hist>>

\* enhancedAIService.ts:68-75 and 79-82 (100-110 and 113-116): the provider
\* call settles; on success the last progress event and the start of
\* saveToHistory (189-206), on failure the error is rethrown
serviceProviderSettles(c, ok) ==
  /\ probe.calls[c].pc = "provider"
  /\ probe' = [probe EXCEPT !.calls[c] =
                 IF ok
                 THEN [@ EXCEPT !.pc = "saving", !.imageUrl = <<"https://image/1.png">>,
                                !.progress = Append(@, Num("1.0")),
                                !.modelUsed = modelUsed(probe.currentModel)]
                 ELSE [@ EXCEPT !.pc = "done", !.promise = "rejected",
                                !.value = <<"provider failed">>]]
  /\ UNCHANGED <<now, responses, jobs, activeGenerations, resultCache, subs, hist>>

\* databaseService.ts:77-95 and enhancedAIService.ts:198-209, 77: the save
\* settles and generateImage returns
serviceSaveSettles(c, ok) ==
  /\ probe.calls[c].pc = "saving"
  /\ probe' = IF ok
              THEN [probe EXCEPT !.calls[c] = [@ EXCEPT !.pc = "done", !.promise = "resolved",
                                                        !.value = probe.calls[c].imageUrl,
                                                        !.saved = TRUE],
                                 !.history = Append(@, [call |-> c,
                                                        modelUsed |-> probe.calls[c].modelUsed,
                                                        imageUrl |-> probe.calls[c].imageUrl])]
              ELSE [probe EXCEPT !.calls[c] = saveFailed(@)]
  /\ UNCHANGED <<now, responses, jobs, activeGenerations, resultCache, subs, hist>>

NextService ==
  \/ \E modelName \in ModelNames : serviceSetModel(modelName)
  \/ serviceGenerateImage
  \/ serviceGenerateFaceSwap
  \/ \E c \in 1..Len(probe.calls) : \E ok \in BOOLEAN : serviceProviderSettles(c, ok)
  \/ \E c \in 1..Len(probe.calls) : \E ok \in BOOLEAN : serviceSaveSettles(c, ok)

SpecService == InitService /\ [][NextService]_vars

\* C35: a face swap generation is made with a model whose configuration has
\* supportsFaceSwap = true, whatever the current model; the call fails with
\* 'No face swap model available' only when no model supports face swap.
C35_FaceSwapModelGenerates ==
  \A c \in 1..Len(probe.calls) :
     probe.calls[c].kind = "faceswap" =>
        IF \E k \in 1..Len(probe.models) : probe.models[k].supportsFaceSwap /\ probe.models[k].isUncensored
        THEN /\ probe.calls[c].value # <<"No face swap model available">>
             /\ probe.calls[c].generator.supportsFaceSwap
        ELSE probe.calls[c].value = <<"No face swap model available">>

\* C36: every saved generation records as modelUsed the model that was
\* current when the image was generated.
C36_HistoryNamesGenerator ==
  \A h \in 1..Len(probe.history) :
     probe.history[h].modelUsed = probe.calls[probe.history[h].call].current

\* C37: the service starts with 'Pollinations FLUX'; setModel with a name
\* that matches no model leaves the current model as it was, setModel with a
\* configured name makes that model current, and the model list stays as
\* configured.
C37_SetModelFrame ==
  /\ probe.models = models
  /\ Len(probe.setCalls) = 0 => probe.currentModel.name = "Pollinations FLUX"
  /\ \A n \in 1..Len(probe.setCalls) :
        LET call == probe.setCalls[n]
        IN  /\ call.before = IF n = 1 THEN newAIModelService ELSE probe.setCalls[n - 1].after
            /\ IF \E k \in 1..Len(models) : models[k].name = call.modelName
               THEN call.after.name = call.modelName /\ \E k \in 1..Len(models) : models[k] = call.after
               ELSE call.after = call.before
  /\ Len(probe.setCalls) > 0 => probe.currentModel = probe.setCalls[Len(probe.setCalls)].after

\* a configured model was selected, then an unknown name left it current
C37_Witness ==
  /\ Len(probe.setCalls) = 2
  /\ probe.setCalls[1].modelName = "FLUX Schnell Uncensored"
  /\ probe.setCalls[2].modelName = "No Such Model"
  /\ probe.currentModel.name = "FLUX Schnell Uncensored"
  /\ probe.currentModel.provider = "replicate"

\* C38: generateImage reports 0.1 before the provider call and 1.0 only after
\* the provider call has succeeded; once the provider has returned an image
\* the call resolves with its URL whether the save to history succeeds or
\* not; a provider error is rethrown without a 1.0 event.
C38_SaveNeverFails ==
  \A c \in 1..Len(probe.calls) :
     LET call == probe.calls[c]
     IN  call.kind = "image" =>
           /\ call.progress[1] = Num("0.1")
           /\ (\E n \in 1..Len(call.progress) : call.progress[n] = Num("1.0"))
                 <=> call.imageUrl # Undefined
           /\ call.pc = "provider" => call.progress = << Num("0.1") >>
           /\ (call.pc = "done" /\ call.imageUrl # Undefined) =>
                 call.promise = "resolved" /\ call.value = call.imageUrl
           /\ (call.pc = "done" /\ call.imageUrl = Undefined) =>
                 call.promise = "rejected" /\ call.progress = << Num("0.1") >>

\* the provider returned an image, the save failed, the call resolved
C38_Witness ==
  \E c \in 1..Len(probe.calls) :
     /\ probe.calls[c].kind = "image"
     /\ probe.calls[c].pc = "done"
     /\ ~probe.calls[c].saved
     /\ probe.calls[c].promise = "resolved"
     /\ probe.calls[c].value = <<"https://image/1.png">>
     /\ probe.calls[c].progress = << Num("0.1"), Num("1.0") >>
     /\ Len(probe.history) = 0

\* ---- the client's promise (aiService.ts:58-128) ----

ResultEvents == { data \in StreamEvents : data.type = "result" /\ data.status = "completed" }

FailureEvents == { data \in StreamEvents \ {Malformed} :
                     ~(data.type = "result" /\ data.status = "completed")
                     /\ (data.type = "error" \/ data.status = "failed") }

ServerErrors == { r.error : r \in { q \in PostOutcomes : ~q.ok /\ q.error # <<"<fetch rejected>">> } }

C39_Settled ==
  /\ probe.settles = (IF probe.promise = "pending" THEN 0 ELSE 1)
  /\ (probe.promise = "pending") = (probe.outcome = Undefined /\ probe.settles = 0)
  /\ probe.promise = "resolved" =>
       /\ probe.terminal
       /\ \E data \in ResultEvents : probe.outcome = data.imageUrl
  /\ (probe.promise # "pending" /\ probe.source # "none") => probe.source = "closed"
  /\ probe.pc = "returned" =>
       /\ probe.promise = "rejected"
       /\ probe.source = "none" /\ probe.timer = "none"
       /\ probe.outcome \in ServerErrors \cup {<<"Failed to connect to the AI server. Is it running?">>}

C39_Step ==
  /\ probe.promise # "pending" =>
       /\ probe'.promise = probe.promise
       /\ probe'.outcome = probe.outcome
       /\ probe'.settles = probe.settles
  /\ (probe.promise = "pending" /\ probe'.promise = "resolved") =>
       \E data \in ResultEvents : probe' = onmessage(probe, data) /\ probe'.outcome = data.imageUrl
  /\ \A data \in FailureEvents :
       (probe.promise = "pending" /\ probe.source = "open" /\ probe' = onmessage(probe, data)) =>
         /\ probe'.promise = "rejected"
         /\ probe'.outcome = OrElse(data.error, <<"Generation failed">>)
         /\ probe'.source = "closed"
  /\ (probe.promise = "pending" /\ ~probe.lost /\ probe'.lost) =>
       /\ probe'.promise = "rejected"
       /\ probe'.outcome = <<"Connection to generation service lost">>
       /\ probe'.source = "closed"
  /\ \A r \in PostOutcomes :
       (probe.pc = "post" /\ ~r.ok /\ r.error \in ServerErrors /\ probe'.outcome = r.error) =>
         probe'.promise = "rejected" /\ probe'.source = "none" /\ probe'.pc = "returned"

\* C39: the promise of the client's generateImage settles once: resolved with
\* the image URL only by a 'result' event with status 'completed', rejected by
\* an 'error' or 'failed' event and by a stream error, with the event source
\* closed; a settled promise keeps its outcome through later events and the
\* timer; a POST that is not OK rejects with the server's error and opens no
\* stream.
C39_SettlesOnce == [](C39_Settled) /\ [][C39_Step]_vars

\* the call was resolved by a result event and the 5 minute timer fired later
C39_Witness ==
  /\ probe.promise = "resolved"
  /\ probe.timer = "fired"
  /\ probe.settles = 1
  /\ \E data \in ResultEvents : probe.outcome = data.imageUrl

====
